---- MODULE Spec2Model ----
(***************************************************************************)
(* Model of LTXVideoGenerator/Resources/av_generator_lora.py:              *)
(*   - apply_lora_weights: key normalisation, grouping, path resolution    *)
(*     and the additive merge of low-rank deltas into linear layers;       *)
(*   - generate_video_with_audio_lora: the generation pipeline.            *)
(*                                                                         *)
(* Strings are sequences of one-character strings, so that str.replace,    *)
(* str.split, "in" and startswith are computed as Python computes them.    *)
(* Tensors are 2-D matrices [r, c, d] of exact values.  Weights and deltas *)
(* are counted in halves (a stored 3 stands for 1.5); tensor entries of    *)
(* the archives, alpha and strength are whole numbers, so that every       *)
(* product and alpha / rank (rank 1 or 2) is exact, as the floating-point  *)
(* operations of the program are on such values; dtype casts then keep     *)
(* the value.                                                              *)
(***************************************************************************)
EXTENDS Integers, Sequences, FiniteSets, TLC

\* The model apply_lora_weights is called on, and the calls made
VARIABLES
    weights,        \* the weight of every linear layer of the model
    calls,          \* the calls made so far: [arch, strength, file, log]
    log,            \* what the last call did with each group, in order
    applied_count,  \* the count the last call reported, or NotReported
    raised          \* the exception the last call ended with, or "none"

loraVars == <<weights, calls, log, applied_count, raised>>

\* The grouping of one module's adapter under the two naming conventions
VARIABLES
    base,           \* the module base name, an index of BaseNames
    alphas,         \* the alpha tensors of the archive, an index of AlphaSets
    downFirst,      \* the archive lists the down tensor before the up tensor
    grouped,        \* the conventions grouped so far
    groupsDownUp,   \* lora_groups of the lora_down / lora_up archive
    groupsAB,       \* lora_groups of the lora_A / lora_B archive
    rank,           \* the row count of the archive's down tensor
    scales          \* per convention grouped, the scale of each of its groups, in halves

normVars == <<base, alphas, downFirst, grouped, groupsDownUp, groupsAB, rank, scales>>

\* One adapter applied twice with a strength s and once with 2s
VARIABLES
    tw_archive,     \* the adapter file, an index of Archives
    tw_strength,    \* the strength s
    w_twice,        \* the weights of the model the file is applied to with s
    times,          \* the number of calls made on that model
    w_once,         \* the weights of the model the file is applied to with 2s
    once_done       \* the call with 2s has been made

twiceVars == <<tw_archive, tw_strength, w_twice, times, w_once, once_done>>

\* One call of generate_video_with_audio_lora
VARIABLES
    pc,                 \* the statement the call is at
    height,             \* argument height
    width,              \* argument width
    requested_frames,   \* argument num_frames as passed
    num_frames,         \* the local num_frames
    lora_file,          \* argument lora_path, by what is found at the path
    enhancer,           \* arguments enhance_prompt and use_uncensored_enhancer
    use_unified,        \* is_unified_mlx_model(model_path)
    loaded,             \* the model objects held in memory
    phases,             \* the phases run so far, in order
    ended               \* "running", or the exception the call ended with

genVars == <<pc, height, width, requested_frames, num_frames, lora_file, enhancer,
             use_unified, loaded, phases, ended>>

\* The rest of that call, from the construction of the transformer on, and the
\* command-line entry point that made the call
VARIABLES
    is_i2v,                 \* image is not None
    failing,                \* the collaborator that fails in this run, or "none"
    save_audio_separately,  \* argument save_audio_separately
    audio_path_given,       \* output_audio_path is not None
    events,                 \* loads, uses, releases and cache clears, in order
    tversion,               \* the number of times the transformer's weights were set
    files,                  \* the files at output_path, temp_video_path, audio_path
    emitted,                \* what main printed: <<>>, or SUCCESS / error objects
    exit_code               \* the exit status of main, or NotExited

pipeVars == <<is_i2v, failing, save_audio_separately, audio_path_given, events,
              tversion, files, emitted, exit_code>>

\* The initial latents of a stage at one position of the video latent and one
\* of the audio latent
VARIABLES
    nz_stage,       \* 0, or the stage whose initial latents have been set
    nz_i2v,         \* is_i2v
    nz_cond,        \* the position lies in the frame the image conditions
    nz_strength,    \* image_strength, in halves
    nz_state,       \* the LatentState at the position after apply_conditioning
    nz_sigma,       \* STAGE_2_SIGMAS[0], in quarters
    nz_ref,         \* the image latent at the position
    nz_prev,        \* the video latent before the init (stage 2: upsampled)
    nz_noise,       \* the video noise drawn at the position
    nz_audio_prev,  \* the audio latent before the init
    nz_audio_noise, \* the audio noise drawn
    video0,         \* the initial video latent, in eighths
    audio0          \* the initial audio latent, in eighths

noiseVars == <<nz_stage, nz_i2v, nz_cond, nz_strength, nz_state, nz_sigma, nz_ref, nz_prev, nz_noise,
               nz_audio_prev, nz_audio_noise, video0, audio0>>

\* ltx_server.main
VARIABLES
    stdin,          \* the request lines not read yet
    stdout,         \* the lines written to the original standard output
    fd1,            \* what file descriptor 1 refers to
    io,             \* the reads, library writes and responses made so far
    serving,        \* the server loop is running
    handled         \* per request line read, what the loop did with it

serverVars == <<stdin, stdout, fd1, io, serving, handled>>

\* test_enhance_prompt_preview
VARIABLES
    tc_input,       \* the string a test passes to _clean_response
    tc_result       \* what the test observed: the exception raised and the value returned

cleanVars == <<tc_input, tc_result>>

\* sanitize_key called on one key
VARIABLES
    sk_pieces,      \* the key, as the pieces of text it is made of (indices of KeyPieces)
    sk_out          \* whether the call was made, and the key it returned

keyVars == <<sk_pieces, sk_out>>

\* av_generator.main and av_generator_lora.main
VARIABLES
    wr_args,        \* the parsed command-line arguments
    wr_call,        \* the keyword arguments of the generation call made
    wr_printed      \* what print(json.dumps(...)) has written

wrapVars == <<wr_args, wr_call, wr_printed>>

lateVars == <<pipeVars, noiseVars, serverVars, cleanVars, keyVars, wrapVars>>

vars == <<loraVars, normVars, twiceVars, genVars, lateVars>>

\* ------------------------------------------------------------------------
\* String literals of apply_lora_weights
\* ------------------------------------------------------------------------
PfxDiffusionModel == <<"m", "o", "d", "e", "l", ".", "d", "i", "f", "f", "u", "s", "i", "o", "n", "_", "m", "o", "d", "e", "l", ".">>
PfxTransformer == <<"t", "r", "a", "n", "s", "f", "o", "r", "m", "e", "r", ".">>
ExtToOut == <<".", "t", "o", "_", "o", "u", "t", ".", "0", ".">>
HostToOut == <<".", "t", "o", "_", "o", "u", "t", ".">>
ExtFfIn == <<".", "f", "f", ".", "n", "e", "t", ".", "0", ".", "p", "r", "o", "j", ".">>
HostFfIn == <<".", "f", "f", ".", "p", "r", "o", "j", "_", "i", "n", ".">>
ExtFfOut == <<".", "f", "f", ".", "n", "e", "t", ".", "2", ".">>
HostFfOut == <<".", "f", "f", ".", "p", "r", "o", "j", "_", "o", "u", "t", ".">>
ExtAudioFfIn == <<".", "a", "u", "d", "i", "o", "_", "f", "f", ".", "n", "e", "t", ".", "0", ".", "p", "r", "o", "j", ".">>
HostAudioFfIn == <<".", "a", "u", "d", "i", "o", "_", "f", "f", ".", "p", "r", "o", "j", "_", "i", "n", ".">>
ExtAudioFfOut == <<".", "a", "u", "d", "i", "o", "_", "f", "f", ".", "n", "e", "t", ".", "2", ".">>
HostAudioFfOut == <<".", "a", "u", "d", "i", "o", "_", "f", "f", ".", "p", "r", "o", "j", "_", "o", "u", "t", ".">>
ExtLinear1 == <<".", "l", "i", "n", "e", "a", "r", "_", "1", ".">>
HostLinear1 == <<".", "l", "i", "n", "e", "a", "r", "1", ".">>
ExtLinear2 == <<".", "l", "i", "n", "e", "a", "r", "_", "2", ".">>
HostLinear2 == <<".", "l", "i", "n", "e", "a", "r", "2", ".">>
MarkLora == <<"l", "o", "r", "a">>
MarkAlpha == <<"a", "l", "p", "h", "a">>
MarkDown == <<"l", "o", "r", "a", "_", "d", "o", "w", "n">>
MarkUp == <<"l", "o", "r", "a", "_", "u", "p">>
MarkA == <<"l", "o", "r", "a", "_", "A">>
MarkB == <<"l", "o", "r", "a", "_", "B">>
SufLoraDotAlpha == <<".", "l", "o", "r", "a", ".", "a", "l", "p", "h", "a">>
SufAlpha == <<".", "a", "l", "p", "h", "a">>
SufLoraAlpha == <<".", "l", "o", "r", "a", "_", "a", "l", "p", "h", "a">>
SufWeight == <<".", "w", "e", "i", "g", "h", "t">>

\* Words the archives' keys and the module graph are built from
W ==
    [transformer_blocks |-> <<"t", "r", "a", "n", "s", "f", "o", "r", "m", "e", "r", "_", "b", "l", "o", "c", "k", "s">>,
     attn1 |-> <<"a", "t", "t", "n", "1">>,
     to_out |-> <<"t", "o", "_", "o", "u", "t">>,
     to_q |-> <<"t", "o", "_", "q">>,
     ff |-> <<"f", "f">>,
     net |-> <<"n", "e", "t">>,
     proj |-> <<"p", "r", "o", "j">>,
     proj_in |-> <<"p", "r", "o", "j", "_", "i", "n">>,
     proj_out |-> <<"p", "r", "o", "j", "_", "o", "u", "t">>,
     audio_ff |-> <<"a", "u", "d", "i", "o", "_", "f", "f">>,
     linear_1 |-> <<"l", "i", "n", "e", "a", "r", "_", "1">>,
     linear_2 |-> <<"l", "i", "n", "e", "a", "r", "_", "2">>,
     linear1 |-> <<"l", "i", "n", "e", "a", "r", "1">>,
     linear2 |-> <<"l", "i", "n", "e", "a", "r", "2">>,
     adaln |-> <<"a", "d", "a", "l", "n">>,
     weight |-> <<"w", "e", "i", "g", "h", "t">>,
     keys |-> <<"k", "e", "y", "s">>,
     lin |-> <<"l", "i", "n">>,
     aux |-> <<"a", "u", "x">>,
     model |-> <<"m", "o", "d", "e", "l">>,
     diffusion_model |-> <<"d", "i", "f", "f", "u", "s", "i", "o", "n", "_", "m", "o", "d", "e", "l">>,
     transformer |-> <<"t", "r", "a", "n", "s", "f", "o", "r", "m", "e", "r">>,
     meta |-> <<"m", "e", "t", "a">>]
Dot == <<".">>

\* ------------------------------------------------------------------------
\* Python string operations
\* ------------------------------------------------------------------------
Digits == {"0", "1", "2", "3", "4", "5", "6", "7", "8", "9"}

\* s.startswith(p)
StartsWith(s, p) == Len(s) >= Len(p) /\ SubSeq(s, 1, Len(p)) = p

\* s[n:]
Drop(s, n) == SubSeq(s, n + 1, Len(s))

\* The positions at which sub occurs in s
Occurrences(s, sub) ==
    {i \in 1..(Len(s) - Len(sub) + 1) : SubSeq(s, i, i + Len(sub) - 1) = sub}

\* s.find(sub) + 1: the first position at which sub occurs in s, 0 when none
Find(s, sub) ==
    LET occ == Occurrences(s, sub)
    IN  IF occ = {} THEN 0 ELSE CHOOSE i \in occ : \A j \in occ : i <= j

\* sub in s
StrContains(s, sub) == Find(s, sub) # 0

\* s.replace(old, new): leftmost non-overlapping occurrences, old non-empty
RECURSIVE StrReplace(_, _, _)
StrReplace(s, old, new) ==
    LET at == Find(s, old)
    IN  IF at = 0 THEN s
        ELSE SubSeq(s, 1, at - 1) \o new \o StrReplace(Drop(s, at + Len(old) - 1), old, new)

\* s.split(sep)[0]: the text before the first occurrence of sep, or all of s
SplitFirst(s, sep) ==
    LET at == Find(s, sep)
    IN  IF at = 0 THEN s ELSE SubSeq(s, 1, at - 1)

\* s.split('.'): the sequence of segments, empty segments kept
RECURSIVE SplitDots(_)
SplitDots(s) ==
    LET first == SplitFirst(s, Dot)
    IN  IF Len(first) = Len(s) THEN <<s>>
        ELSE <<first>> \o SplitDots(Drop(s, Len(first) + 1))

\* part.isdigit() for the ASCII keys of the model
IsDigit(part) == Len(part) > 0 /\ \A i \in 1..Len(part) : part[i] \in Digits

DigitVal(ch) ==
    CASE ch = "0" -> 0 [] ch = "1" -> 1 [] ch = "2" -> 2 [] ch = "3" -> 3
      [] ch = "4" -> 4 [] ch = "5" -> 5 [] ch = "6" -> 6 [] ch = "7" -> 7
      [] ch = "8" -> 8 [] ch = "9" -> 9

\* int(part) for a string of digits
RECURSIVE ParseInt(_)
ParseInt(part) ==
    IF Len(part) = 0 THEN 0
    ELSE 10 * ParseInt(SubSeq(part, 1, Len(part) - 1)) + DigitVal(part[Len(part)])

\* '.'.join(segs)
RECURSIVE JoinDots(_)
JoinDots(segs) ==
    IF Len(segs) = 0 THEN <<>>
    ELSE IF Len(segs) = 1 THEN segs[1]
    ELSE segs[1] \o Dot \o JoinDots(Tail(segs))

\* ------------------------------------------------------------------------
\* apply_lora_weights.sanitize_key
\* ------------------------------------------------------------------------
StripPrefixes(key) ==
    LET k1 == StrReplace(key, PfxDiffusionModel, <<>>)
    IN  IF StartsWith(k1, PfxTransformer) THEN StrReplace(k1, PfxTransformer, <<>>) ELSE k1

\* The mapping rules, <<old, new>>, in the order the replacements are made
Rules ==
    <<<<ExtToOut, HostToOut>>, <<ExtFfIn, HostFfIn>>, <<ExtFfOut, HostFfOut>>,
      <<ExtAudioFfIn, HostAudioFfIn>>, <<ExtAudioFfOut, HostAudioFfOut>>,
      <<ExtLinear1, HostLinear1>>, <<ExtLinear2, HostLinear2>>>>

\* key after the replacements i, i + 1, ... (Len(key) is taken first so that a
\* replacement is evaluated before the next one starts)
RECURSIVE MappingRulesFrom(_, _)
MappingRulesFrom(key, i) ==
    IF Len(key) < 0 \/ i > Len(Rules) THEN key
    ELSE MappingRulesFrom(StrReplace(key, Rules[i][1], Rules[i][2]), i + 1)

MappingRules(key) == MappingRulesFrom(key, 1)

sanitize_key(key) == MappingRules(StripPrefixes(key))

\* ------------------------------------------------------------------------
\* Tensors and archives
\* ------------------------------------------------------------------------
\* An archive (the dict mx.load returns) is a sequence of [key, val] entries with
\* distinct keys, in the order the dict iterates them.
HasKey(archive, key) == \E i \in 1..Len(archive) : archive[i].key = key

Lookup(archive, key) == archive[CHOOSE i \in 1..Len(archive) : archive[i].key = key].val

Mat(rows, cols, data) == [r |-> rows, c |-> cols, d |-> data]

\* ------------------------------------------------------------------------
\* apply_lora_weights: grouping (the first loop)
\* ------------------------------------------------------------------------
\* The entry is a low-rank tensor: it passes the three "continue" tests.
IsAdapterKey(key) ==
    /\ StrContains(key, MarkLora)
    /\ ~StrContains(key, MarkAlpha)
    /\ \/ StrContains(key, MarkDown) \/ StrContains(key, MarkA)
       \/ StrContains(key, MarkUp) \/ StrContains(key, MarkB)

\* Classify with the roles of lora_A and lora_B exchanged
ClassifyRolesSwapped(key) ==
    IF StrContains(key, MarkDown)
    THEN [base |-> SplitFirst(key, Dot \o MarkDown), type |-> "down"]
    ELSE IF StrContains(key, MarkUp)
    THEN [base |-> SplitFirst(key, Dot \o MarkUp), type |-> "up"]
    ELSE IF StrContains(key, MarkA)
    THEN [base |-> SplitFirst(key, Dot \o MarkA), type |-> "up"]
    ELSE [base |-> SplitFirst(key, Dot \o MarkB), type |-> "down"]

\* The if / elif chain: base_name and type_ of an adapter key.
Classify(key) ==
    IF StrContains(key, MarkDown)
    THEN [base |-> SplitFirst(key, Dot \o MarkDown), type |-> "down"]
    ELSE IF StrContains(key, MarkUp)
    THEN [base |-> SplitFirst(key, Dot \o MarkUp), type |-> "up"]
    ELSE IF StrContains(key, MarkA)
    THEN [base |-> SplitFirst(key, Dot \o MarkA), type |-> "down"]
    ELSE [base |-> SplitFirst(key, Dot \o MarkB), type |-> "up"]

\* alpha_key_candidates, in the order they are searched
AlphaKeyCandidatesLoraAlphaFirst(base_name) == <<base_name \o SufLoraAlpha, base_name \o SufAlpha, base_name \o SufLoraDotAlpha>>

AlphaKeyCandidates(base_name) == <<base_name \o SufLoraDotAlpha, base_name \o SufAlpha, base_name \o SufLoraAlpha>>

\* d[k] = v on a dict modelled as a function
Put(f, k, v) == (k :> v) @@ f

\* The for / break loop over the candidates: the group's tensors after it.
AttachAlpha(w, archive, base_name) ==
    LET cands == AlphaKeyCandidates(base_name)
        hits == {i \in 1..Len(cands) : HasKey(archive, cands[i])}
    IN  IF hits = {} THEN w
        ELSE Put(w, "alpha", Lookup(archive, cands[CHOOSE i \in hits : \A j \in hits : i <= j]))

GroupIndex(groups, name) ==
    IF \E i \in 1..Len(groups) : groups[i].name = name
    THEN CHOOSE i \in 1..Len(groups) : groups[i].name = name
    ELSE 0

\* lora_groups with group `name` holding the tensors w; insertion order is kept.
SetGroup(groups, name, at, w) ==
    IF at = 0 THEN Append(groups, [name |-> name, w |-> w])
    ELSE [groups EXCEPT ![at] = [name |-> name, w |-> w]]

\* lora_groups[name][type_] = value, then the search for the alpha
StoreTensor(groups, archive, base_name, type, val, name, at) ==
    SetGroup(groups, name, at,
             AttachAlpha(Put(IF at = 0 THEN <<>> ELSE groups[at].w, type, val),
                         archive, base_name))

\* The group of an adapter key classified as cl, under its sanitized name
StoreUnder(groups, archive, val, cl, name) ==
    StoreTensor(groups, archive, cl.base, cl.type, val, name, GroupIndex(groups, name))

StoreClassified(groups, archive, val, cl) ==
    StoreUnder(groups, archive, val, cl, sanitize_key(cl.base))

\* One iteration of the first loop
GroupEntry(groups, archive, entry) ==
    IF ~IsAdapterKey(entry.key) THEN groups
    ELSE StoreClassified(groups, archive, entry.val, Classify(entry.key))

\* The first loop from entry i on.  Len(groups) is taken first so that each
\* iteration is evaluated before the next one starts.
RECURSIVE GroupFrom(_, _, _)
GroupFrom(groups, archive, i) ==
    IF Len(groups) < 0 \/ i > Len(archive) THEN groups
    ELSE GroupFrom(GroupEntry(groups, archive, archive[i]), archive, i + 1)

\* lora_groups after the first loop
GroupWeights(archive) == GroupFrom(<<>>, archive, 1)

\* ------------------------------------------------------------------------
\* The module graph the adapters are merged into
\* ------------------------------------------------------------------------
\* A node has attributes (hasattr / getattr), may be a dict (string and integer
\* keys) or a list, and may be an nn.Linear.  An mlx nn.Module is a dict whose
\* items are also its attributes.  "builtin" stands for a bound method such as
\* dict.keys; "qlin" for a quantized layer, which is no nn.Linear.
NoKids == <<>>

Node(attrs, isdict, skeys, ikeys, items, linear) ==
    [attrs |-> attrs, isdict |-> isdict, skeys |-> skeys, ikeys |-> ikeys,
     islist |-> items # <<>>, items |-> items, linear |-> linear]

Module(kids) == Node(kids, TRUE, kids, NoKids, <<>>, FALSE)

Leaf(linear) == Node(NoKids, linear, NoKids, NoKids, <<>>, linear)

Graph ==
    [root |-> Module((W.transformer_blocks :> "blocks") @@ (W.adaln :> "adaln")),
     blocks |-> Node(NoKids, FALSE, NoKids, NoKids, <<"blk0", "blk1">>, FALSE),
     blk0 |-> Module((W.attn1 :> "attn") @@ (W.ff :> "ff0")),
     attn |-> Module((W.to_out :> "L_out") @@ (W.to_q :> "qlin")),
     ff0 |-> Module((W.proj_in :> "L_in")),
     adaln |-> Module((W.linear1 :> "L_ada")),
     blk1 |-> Node((W.lin :> "L_lin") @@ (W.keys :> "builtin"), TRUE,
                   (W.lin :> "shadow") @@ (W.aux :> "L_aux") @@ (<<"0">> :> "s0"),
                   (0 :> "i0") @@ (7 :> "L_7"), <<>>, FALSE),
     L_out |-> Leaf(TRUE), L_in |-> Leaf(TRUE), L_ada |-> Leaf(TRUE),
     L_lin |-> Leaf(TRUE), L_aux |-> Leaf(TRUE), L_7 |-> Leaf(TRUE),
     qlin |-> Leaf(FALSE), shadow |-> Leaf(FALSE), s0 |-> Leaf(FALSE),
     i0 |-> Leaf(FALSE), builtin |-> Leaf(FALSE)]

Linears == {n \in DOMAIN Graph : Graph[n].linear}

Unresolved == "?"

\* ResolvePart with the mapping-key strategy tried before the attribute strategy
ResolvePartKeyFirst(curr, part) ==
    LET n == Graph[curr]
    IN  IF n.isdict /\ part \in DOMAIN n.skeys THEN n.skeys[part]
        ELSE IF part \in DOMAIN n.attrs THEN n.attrs[part]
        ELSE IF n.isdict /\ IsDigit(part) /\ ParseInt(part) \in DOMAIN n.ikeys
             THEN n.ikeys[ParseInt(part)]
        ELSE IF n.islist /\ IsDigit(part)
             THEN IF ParseInt(part) < Len(n.items) THEN n.items[ParseInt(part) + 1]
                  ELSE Unresolved
        ELSE Unresolved

\* One iteration of the "for part in parts" loop: the node reached from curr, or
\* Unresolved (valid_path = False).
ResolvePart(curr, part) ==
    LET n == Graph[curr]
    IN  IF part \in DOMAIN n.attrs THEN n.attrs[part]
        ELSE IF n.isdict /\ part \in DOMAIN n.skeys THEN n.skeys[part]
        ELSE IF n.isdict /\ IsDigit(part) /\ ParseInt(part) \in DOMAIN n.ikeys
             THEN n.ikeys[ParseInt(part)]
        ELSE IF n.islist /\ IsDigit(part)
             THEN IF ParseInt(part) < Len(n.items) THEN n.items[ParseInt(part) + 1]
                  ELSE Unresolved
        ELSE IF W.transformer_blocks \in DOMAIN n.attrs /\ part = W.transformer_blocks
             THEN n.attrs[W.transformer_blocks]
        ELSE Unresolved

RECURSIVE ResolveFrom(_, _)
ResolveFrom(curr, parts) ==
    IF Len(parts) = 0 \/ curr = Unresolved THEN curr
    ELSE ResolveFrom(ResolvePart(curr, Head(parts)), Tail(parts))

\* The object module_name.split('.') leads to from the model, or Unresolved.
ResolvePath(module_name) == ResolveFrom("root", SplitDots(module_name))

\* ------------------------------------------------------------------------
\* apply_lora_weights: the merge (the second loop)
\* ------------------------------------------------------------------------
RECURSIVE SumTo(_, _, _, _, _)
SumTo(up, down, i, j, k) ==
    IF k = 0 THEN 0 ELSE up.d[i][k] * down.d[k][j] + SumTo(up, down, i, j, k - 1)

\* up @ down, defined when up.c = down.r
MatMul(up, down) ==
    Mat(up.r, down.c, [i \in 1..up.r |-> [j \in 1..down.c |-> SumTo(up, down, i, j, up.c)]])

MatScale(m, f) == Mat(m.r, m.c, [i \in 1..m.r |-> [j \in 1..m.c |-> m.d[i][j] * f]])

Max(a, b) == IF a >= b THEN a ELSE b

\* a + b may be computed: each axis agrees or one side has extent 1
Broadcastable(a, b) ==
    /\ a.r = b.r \/ a.r = 1 \/ b.r = 1
    /\ a.c = b.c \/ a.c = 1 \/ b.c = 1

Bidx(extent, i) == IF extent = 1 THEN 1 ELSE i

\* The matrix of zeros shaped like m
ZeroLike(m) == Mat(m.r, m.c, [i \in 1..m.r |-> [j \in 1..m.c |-> 0]])

\* a + b with broadcasting
MatAdd(a, b) ==
    LET rows == IF a.r = 1 THEN b.r ELSE a.r
        cols == IF a.c = 1 THEN b.c ELSE a.c
    IN  Mat(rows, cols,
            [i \in 1..rows |-> [j \in 1..cols |->
                a.d[Bidx(a.r, i)][Bidx(a.c, j)] + b.d[Bidx(b.r, i)][Bidx(b.c, j)]]])

ScaleAlphaOnly(w) == IF "alpha" \in DOMAIN w THEN 2 * w["alpha"].d[1][1] ELSE 2

\* rank = down.shape[0]; scale = alpha / rank when the group has an alpha, else
\* 1.0; in halves
Scale(w) == IF "alpha" \in DOMAIN w THEN (2 * w["alpha"].d[1][1]) \div w["down"].r ELSE 2

\* ScaleTimesStrength with the strength entering squared
ScaleTimesStrengthSquared(w, strength) == Scale(w) * strength * strength

\* scale * strength, in halves
ScaleTimesStrength(w, strength) == Scale(w) * strength

\* delta = (up @ down) * (scale * strength), in halves
Delta(w, strength) == MatScale(MatMul(w["up"], w["down"]), ScaleTimesStrength(w, strength))

\* The exception the body of the second loop raises for a resolved group, or "none".
MergeError(w, weight) ==
    IF "alpha" \in DOMAIN w /\ w["alpha"].r * w["alpha"].c # 1 THEN "ValueError"
    ELSE IF "alpha" \in DOMAIN w /\ w["down"].r = 0 THEN "ZeroDivisionError"
    ELSE IF w["up"].c # w["down"].r THEN "ValueError"
    ELSE IF ~Broadcastable(weight, Mat(w["up"].r, w["down"].c, <<>>)) THEN "ValueError"
    ELSE "none"

\* MergedWeight as an assignment of the delta: curr.weight = delta
MergedWeightAssigned(weight, delta) == MatAdd(ZeroLike(weight), delta)

\* curr.weight = curr.weight + delta
MergedWeight(weight, delta) == MatAdd(weight, delta)

\* st with what the loop did with group g, resolved to target, in its log
Logged(st, g, target, what) ==
    [st EXCEPT !.log = Append(@, [name |-> g.name, target |-> target, outcome |-> what])]

\* The body of the second loop for a group resolved to the linear layer target,
\* err being the exception it raises
MergeLinear(st, g, strength, target, err) ==
    IF err # "none" THEN [Logged(st, g, target, "raised") EXCEPT !.raised = err]
    ELSE [Logged(st, g, target, "merged") EXCEPT
              !.weights[target] = MergedWeight(@, Delta(g.w, strength)),
              !.count = @ + 1]

\* The body of the second loop for a complete group, target being what its path
\* resolves to
MergeResolved(st, g, strength, target) ==
    IF target = Unresolved THEN Logged(st, g, target, "unresolved")
    ELSE IF ~Graph[target].linear THEN Logged(st, g, target, "notlinear")
    ELSE MergeLinear(st, g, strength, target, MergeError(g.w, st.weights[target]))

\* One iteration of the second loop on st = [weights, count, log, raised].
MergeGroup(st, g, strength) ==
    IF ~("down" \in DOMAIN g.w /\ "up" \in DOMAIN g.w)
    THEN Logged(st, g, Unresolved, "incomplete")
    ELSE MergeResolved(st, g, strength, ResolvePath(g.name))

\* The second loop: it ends at the first exception.
RECURSIVE MergeFrom(_, _, _, _)
MergeFrom(st, groups, i, strength) ==
    IF i > Len(groups) \/ st.raised # "none" THEN st
    ELSE MergeFrom(MergeGroup(st, groups[i], strength), groups, i + 1, strength)

NotReported == -1

\* Reported giving the number of groups seen instead of applied_count
ReportedGroups(st, on) ==
    st @@ [reported |-> IF on = "return" /\ st.raised = "none" THEN Len(st.log)
                        ELSE NotReported]

\* st with the count of the final message, printed when the call gets to its
\* last statement
Reported(st, on) ==
    st @@ [reported |-> IF on = "return" /\ st.raised = "none" THEN st.count
                        ELSE NotReported]

\* The model before the first loop
Start(model) == [weights |-> model, count |-> 0, log |-> <<>>, raised |-> "none"]

\* apply_lora_weights(model, lora_path, strength) on a model whose linear layers
\* hold `weights`; file is "missing" (os.path.exists is False), "unreadable"
\* (mx.load raises) or "ok".  reported is the count of the final message.
apply_lora_weights(model, file, archive, strength) ==
    IF file # "ok" THEN Reported(Start(model), "early return")
    ELSE Reported(MergeFrom(Start(model), GroupWeights(archive), 1, strength), "return")

\* ------------------------------------------------------------------------
\* The archives and the model the calls are made on
\* ------------------------------------------------------------------------
AdapterKey(base_name, marker) == base_name \o Dot \o marker \o SufWeight

Entry(key, val) == [key |-> key, val |-> val]

Scalar(v) == Mat(1, 1, <<<<v>>>>)

Down2x2 == Mat(2, 2, <<<<1, 0>>, <<0, 1>>>>)
Up2x2 == Mat(2, 2, <<<<1, 1>>, <<0, 1>>>>)
Down1x2 == Mat(1, 2, <<<<1, 2>>>>)
Up2x1 == Mat(2, 1, <<<<1>>, <<1>>>>)
Down0x2 == Mat(0, 2, <<>>)
Up2x0 == Mat(2, 0, <<<<>>, <<>>>>)

BlockPath(idx, rest) == W.transformer_blocks \o Dot \o idx \o Dot \o rest

B_to_out == PfxTransformer \o BlockPath(<<"0">>, W.attn1 \o Dot \o W.to_out)
B_proj_in == BlockPath(<<"0">>, W.ff \o Dot \o W.proj_in)
B_to_q == BlockPath(<<"0">>, W.attn1 \o Dot \o W.to_q)
B_linear1 == PfxDiffusionModel \o W.adaln \o Dot \o W.linear1
B_ext_to_out == PfxDiffusionModel \o BlockPath(<<"0">>, W.attn1 \o Dot \o W.to_out \o Dot \o <<"0">>)
B_ext_ff == BlockPath(<<"0">>, W.ff \o Dot \o W.net \o Dot \o <<"0">> \o Dot \o W.proj)
B_lin == BlockPath(<<"1">>, W.lin)
B_aux == BlockPath(<<"1">>, W.aux)
B_seven == BlockPath(<<"0", "1">>, <<"0", "7">>)
B_keys == BlockPath(<<"1">>, W.keys)
B_zero == BlockPath(<<"1">>, <<"0">>)
B_range == BlockPath(<<"2">>, W.lin)
B_nokey == BlockPath(<<"1">>, W.proj)

\* The down and the up tensor of one module
Pair(base_name, down, up) ==
    <<Entry(AdapterKey(base_name, MarkDown), down), Entry(AdapterKey(base_name, MarkUp), up)>>

\* a complete group, rank 2 with alpha 1, for the 2x2 layer attn1.to_out, and a
\* group whose 2x2 delta is merged into the 1x1 weight of a layer
ArchHost ==
    <<Entry(AdapterKey(B_to_out, MarkDown), Down2x2),
      Entry(AdapterKey(B_to_out, MarkUp), Up2x2),
      Entry(B_to_out \o SufAlpha, Scalar(1))>>
    \o Pair(B_aux, Down2x2, Up2x2)

\* lora_A / lora_B naming without alpha, a group with an up tensor only, and a
\* key that is no adapter tensor
ArchAB ==
    <<Entry(W.meta, Scalar(3)),
      Entry(AdapterKey(B_proj_in, MarkB), Scalar(1)),
      Entry(AdapterKey(B_linear1, MarkB), Scalar(2)),
      Entry(AdapterKey(B_proj_in, MarkA), Down1x2)>>

\* external submodule names as the last segment of the module path
ArchExt ==
    <<Entry(AdapterKey(B_ext_to_out, MarkDown), Down1x2),
      Entry(AdapterKey(B_ext_to_out, MarkUp), Up2x1),
      Entry(AdapterKey(B_ext_ff, MarkA), Down1x2),
      Entry(AdapterKey(B_ext_ff, MarkB), Scalar(1)),
      Entry(AdapterKey(B_linear1, MarkA), Scalar(1))>>

\* paths through the list, the dict (string and integer keys) and attributes,
\* with segments nothing resolves and targets that are no linear layer
ArchPaths ==
    Pair(B_range, Scalar(1), Scalar(1)) \o Pair(B_to_q, Scalar(1), Scalar(1))
    \o Pair(B_aux, Scalar(1), Scalar(2)) \o Pair(B_seven, Scalar(1), Scalar(3))
    \o Pair(B_lin, Scalar(2), Scalar(2)) \o Pair(B_keys, Scalar(1), Scalar(1))
    \o Pair(B_zero, Scalar(1), Scalar(1)) \o Pair(B_nokey, Scalar(1), Scalar(1))
    \o <<Entry(B_lin \o SufLoraAlpha, Scalar(2))>>

\* a group whose up and down do not multiply, between groups that merge
ArchShapes ==
    Pair(B_lin, Scalar(1), Scalar(1)) \o Pair(B_range, Scalar(1), Scalar(1))
    \o Pair(B_to_out, Down2x2, Up2x1) \o Pair(B_aux, Scalar(1), Scalar(1))

\* rank 0 with an alpha, after a group that merges
ArchRank0 ==
    Pair(B_aux, Scalar(1), Scalar(1)) \o Pair(B_to_out, Down0x2, Up2x0)
    \o <<Entry(B_to_out \o SufLoraDotAlpha, Scalar(4))>>

\* an alpha that is no scalar, and a rank-1 delta broadcast over the 2x2 weight
ArchAlpha ==
    Pair(B_to_out, Scalar(1), Scalar(1)) \o Pair(B_proj_in, Down1x2, Scalar(1))
    \o <<Entry(B_proj_in \o SufAlpha, Down1x2)>>

Archives == <<ArchHost, ArchAB, ArchExt, ArchPaths, ArchShapes, ArchRank0, ArchAlpha>>

NoArchive == 0

Strengths == {0, 1, 2}

Files == {"ok", "missing", "unreadable"}

\* The weights of the linear layers after load_weights, in halves.
OrigWeights ==
    [n \in Linears |->
        IF n = "L_out" THEN Mat(2, 2, <<<<2, 0>>, <<0, 2>>>>)
        ELSE IF n = "L_in" THEN Mat(1, 2, <<<<2, 4>>>>)
        ELSE Mat(1, 1, <<<<2>>>>)]

MaxCalls == 2

LoraInit ==
    /\ weights = OrigWeights
    /\ calls = <<>>
    /\ log = <<>>
    /\ applied_count = NotReported
    /\ raised = "none"

\* The model and the record of the calls after a call that ended as res
Called(a, strength, file, res) ==
    /\ weights' = res.weights
    /\ log' = res.log
    /\ applied_count' = res.reported
    /\ raised' = res.raised
    /\ calls' = Append(calls, [arch |-> a, strength |-> strength, file |-> file,
                               log |-> res.log])
    /\ UNCHANGED <<normVars, twiceVars, genVars, lateVars>>

\* A call apply_lora_weights(model, lora_path, strength) on a readable archive
ApplyArchive ==
    \E a \in DOMAIN Archives, strength \in Strengths :
        /\ Len(calls) < MaxCalls
        /\ Called(a, strength, "ok", apply_lora_weights(weights, "ok", Archives[a], strength))

\* A call on a path that does not exist or that mx.load cannot read: no archive
\* is read
ApplyNoArchive ==
    \E file \in Files \ {"ok"} :
        /\ Len(calls) < MaxCalls
        /\ Called(NoArchive, 1, file, apply_lora_weights(weights, file, <<>>, 1))

\* ------------------------------------------------------------------------
\* Grouping of one module's adapter under the two naming conventions
\* ------------------------------------------------------------------------
FfOut == W.ff \o Dot \o W.net \o Dot \o <<"2">>
AudioFfIn == W.audio_ff \o Dot \o W.net \o Dot \o <<"0">> \o Dot \o W.proj
AudioFfOut == W.audio_ff \o Dot \o W.net \o Dot \o <<"2">>

\* Module base names as adapter files give them: the external submodule names
\* as the last segment, inside the path, and host names
BaseNames ==
    <<B_ext_to_out, B_ext_ff,
      PfxTransformer \o BlockPath(<<"0">>, FfOut),
      BlockPath(<<"0">>, AudioFfIn),
      BlockPath(<<"0">>, AudioFfOut),
      PfxDiffusionModel \o W.adaln \o Dot \o W.linear_1,
      PfxTransformer \o W.adaln \o Dot \o W.linear_2,
      B_ext_to_out \o Dot \o W.aux,
      PfxDiffusionModel \o B_ext_ff \o Dot \o W.aux,
      BlockPath(<<"0">>, FfOut) \o Dot \o W.aux,
      BlockPath(<<"0">>, AudioFfIn) \o Dot \o W.aux,
      BlockPath(<<"0">>, AudioFfOut) \o Dot \o W.aux,
      W.adaln \o Dot \o W.linear_1 \o Dot \o W.aux,
      PfxTransformer \o W.adaln \o Dot \o W.linear_2 \o Dot \o W.aux,
      B_to_out, B_lin>>

\* The alpha tensors stored beside the adapter, by spelling
AlphaSets ==
    <<{}, {SufLoraDotAlpha}, {SufAlpha}, {SufLoraAlpha}, {SufAlpha, SufLoraAlpha},
      {SufLoraDotAlpha, SufLoraAlpha}>>

AlphaValue(suffix) ==
    IF suffix = SufLoraDotAlpha THEN Scalar(1) ELSE IF suffix = SufAlpha THEN Scalar(2) ELSE Scalar(4)

AlphaEntries(b, sufs) ==
    (IF SufLoraAlpha \in sufs THEN <<Entry(b \o SufLoraAlpha, AlphaValue(SufLoraAlpha))>> ELSE <<>>)
    \o (IF SufAlpha \in sufs THEN <<Entry(b \o SufAlpha, AlphaValue(SufAlpha))>> ELSE <<>>)
    \o (IF SufLoraDotAlpha \in sufs THEN <<Entry(b \o SufLoraDotAlpha, AlphaValue(SufLoraDotAlpha))>> ELSE <<>>)

\* The tensors of the archive by the row count of down
DownOfRank == <<Down1x2, Down2x2>>
UpOfRank == <<Up2x1, Up2x2>>

\* The archive holding a down and an up tensor for module b under the markers
\* downMark and upMark, down first or up first, with its alpha tensors
ArchiveOf(b, downMark, upMark, sufs, first, rows) ==
    LET dn == <<Entry(AdapterKey(b, downMark), DownOfRank[rows])>>
        up == <<Entry(AdapterKey(b, upMark), UpOfRank[rows])>>
    IN  (IF first THEN dn \o up ELSE up \o dn) \o AlphaEntries(b, sufs)

\* The scale the second loop computes for each group that has both tensors
RECURSIVE ScalesOf(_, _)
ScalesOf(groups, i) ==
    IF i > Len(groups) THEN <<>>
    ELSE (IF "down" \in DOMAIN groups[i].w /\ "up" \in DOMAIN groups[i].w
          THEN <<Scale(groups[i].w)>> ELSE <<>>) \o ScalesOf(groups, i + 1)

NormInit ==
    /\ base \in DOMAIN BaseNames
    /\ alphas \in DOMAIN AlphaSets
    /\ downFirst \in BOOLEAN
    /\ grouped = {}
    /\ groupsDownUp = <<>>
    /\ groupsAB = <<>>
    /\ rank \in DOMAIN DownOfRank
    /\ scales = [downup |-> <<>>, ab |-> <<>>]

\* The first loop of apply_lora_weights on the lora_down / lora_up archive, and
\* the scale of the second loop for its groups
GroupDownUp ==
    /\ "downup" \notin grouped
    /\ groupsDownUp' = GroupWeights(ArchiveOf(BaseNames[base], MarkDown, MarkUp,
                                              AlphaSets[alphas], downFirst, rank))
    /\ scales' = [scales EXCEPT !.downup = ScalesOf(groupsDownUp', 1)]
    /\ grouped' = grouped \cup {"downup"}
    /\ UNCHANGED <<base, alphas, downFirst, rank, groupsAB, loraVars, twiceVars, genVars, lateVars>>

\* The first loop of apply_lora_weights on the lora_A / lora_B archive, and the
\* scale of the second loop for its groups
GroupAB ==
    /\ "ab" \notin grouped
    /\ groupsAB' = GroupWeights(ArchiveOf(BaseNames[base], MarkA, MarkB,
                                          AlphaSets[alphas], downFirst, rank))
    /\ scales' = [scales EXCEPT !.ab = ScalesOf(groupsAB', 1)]
    /\ grouped' = grouped \cup {"ab"}
    /\ UNCHANGED <<base, alphas, downFirst, rank, groupsDownUp, loraVars, twiceVars, genVars, lateVars>>

\* ------------------------------------------------------------------------
\* One adapter applied twice with a strength and once with twice the strength
\* ------------------------------------------------------------------------
MaxStrength == 2

\* The strengths of the experiment (a strength may be negative)
TwiceStrengths == (0 - MaxStrength)..MaxStrength

TwiceInit ==
    /\ tw_archive \in DOMAIN Archives
    /\ tw_strength \in TwiceStrengths
    /\ w_twice = OrigWeights
    /\ times = 0
    /\ w_once = OrigWeights
    /\ once_done = FALSE

\* apply_lora_weights(model, lora_path, s) on the first model
ApplyS ==
    /\ times < 2
    /\ w_twice' = apply_lora_weights(w_twice, "ok", Archives[tw_archive], tw_strength).weights
    /\ times' = times + 1
    /\ UNCHANGED <<tw_archive, tw_strength, w_once, once_done, loraVars, normVars, genVars, lateVars>>

\* apply_lora_weights(model, lora_path, 2 * s) on the second model
ApplyDouble ==
    /\ ~once_done
    /\ w_once' = apply_lora_weights(w_once, "ok", Archives[tw_archive], 2 * tw_strength).weights
    /\ once_done' = TRUE
    /\ UNCHANGED <<tw_archive, tw_strength, w_twice, times, loraVars, normVars, genVars, lateVars>>

\* ------------------------------------------------------------------------
\* generate_video_with_audio_lora
\* ------------------------------------------------------------------------
\* m / 8 rounded downwards
FloorEighth(m) == m \div 8

\* round(m / 8): the quotient rounded to the nearest integer, a tie to the even
\* one (m / 8 is exact in binary floating point for the m of the model)
RoundEighth(m) ==
    LET q == m \div 8
        r == m % 8
    IN  IF r < 4 THEN q
        ELSE IF r > 4 THEN q + 1
        ELSE IF q % 2 = 0 THEN q ELSE q + 1

\* round((num_frames - 1) / 8) * 8 + 1
AdjustedFrames(n) == RoundEighth(n - 1) * 8 + 1

MaxFrames == 75
MaxNegFrames == 10

FrameCounts == (0 - MaxNegFrames)..MaxFrames

\* <<height, width>> arguments: valid, and each one invalid
Dimensions == {<<64, 128>>, <<100, 64>>, <<64, 100>>}

\* lora_path: None, a path that does not exist, a file mx.load cannot read, an archive
LoraPaths == {"none", "missing", "unreadable", "ok"}

\* enhance_prompt / use_uncensored_enhancer
Enhancers == {"off", "text_encoder", "uncensored"}

GenInit ==
    /\ pc = "validate"
    /\ \E d \in Dimensions : height = d[1] /\ width = d[2]
    /\ requested_frames \in FrameCounts
    /\ num_frames = requested_frames
    /\ lora_file \in LoraPaths
    /\ enhancer \in Enhancers
    /\ use_unified \in BOOLEAN
    /\ loaded = {}
    /\ phases = <<>>
    /\ ended = "running"

\* A load, use or release of a model object, or a cache clear, with the version
\* of the transformer's weights at that time
Ev(kind, obj, version) == [kind |-> kind, obj |-> obj, version |-> version]

\* del obj without the cache clear
ReleaseNoClear(obj, version) == <<Ev("del", obj, version)>>

\* del obj; mx.clear_cache()
Release(obj, version) == <<Ev("del", obj, version), Ev("clear_cache", "cache", version)>>

\* The variables of the call that the phases up to the model configuration do
\* not set
pipeRest == <<is_i2v, failing, save_audio_separately, audio_path_given, tversion, files,
              emitted, exit_code>>

\* The call goes on with `next`, having run the phase named by pc
GoTo(next) ==
    /\ pc' = next
    /\ phases' = Append(phases, pc)
    /\ UNCHANGED <<height, width, requested_frames, lora_file, enhancer, use_unified>>
    /\ UNCHANGED <<loraVars, normVars, twiceVars, noiseVars, serverVars, cleanVars, keyVars, wrapVars>>

\* The call ends with an exception raised in the phase named by pc
Raise(exception) ==
    /\ pc' = "raised"
    /\ ended' = exception
    /\ phases' = Append(phases, pc)
    /\ UNCHANGED <<height, width, requested_frames, lora_file, enhancer, use_unified>>
    /\ UNCHANGED <<loraVars, normVars, twiceVars, noiseVars, serverVars, cleanVars, keyVars, wrapVars>>

\* The dimensions test with the width left out
DimensionsValidHeightOnly(h, w) == h % 64 = 0

\* Both assert conditions hold
DimensionsValid(h, w) == h % 64 = 0 /\ w % 64 = 0

\* The two assert statements on the dimensions
Validate ==
    /\ pc = "validate"
    /\ IF DimensionsValid(height, width)
       THEN GoTo("adjust_frames") /\ UNCHANGED ended
       ELSE Raise("AssertionError")
    /\ UNCHANGED <<num_frames, loaded, events, pipeRest>>

\* if num_frames % 8 != 1: num_frames = adjusted_num_frames
AdjustFrames ==
    /\ pc = "adjust_frames"
    /\ num_frames' = IF num_frames % 8 # 1 THEN AdjustedFrames(num_frames) ELSE num_frames
    /\ GoTo("model_paths")
    /\ UNCHANGED <<loaded, ended, events, pipeRest>>

\* get_model_path, is_unified_mlx_model, the text encoder path, the latent
\* dimensions and the seed
ModelPaths ==
    /\ pc = "model_paths"
    /\ GoTo("load_text_encoder")
    /\ UNCHANGED <<num_frames, loaded, ended, events, pipeRest>>

\* LTX2TextEncoder().load(...)
LoadTextEncoder ==
    /\ pc = "load_text_encoder"
    /\ loaded' = loaded \cup {"text_encoder"}
    /\ events' = Append(events, Ev("load", "text_encoder", tversion))
    /\ GoTo(IF enhancer = "off" THEN "embed" ELSE "enhance_prompt")
    /\ UNCHANGED <<num_frames, ended, pipeRest>>

\* enhance_with_model or text_encoder.enhance_t2v
EnhancePrompt ==
    /\ pc = "enhance_prompt"
    /\ events' = IF enhancer = "text_encoder"
                  THEN Append(events, Ev("use", "text_encoder", tversion))
                  ELSE events
    /\ GoTo("embed")
    /\ UNCHANGED <<num_frames, loaded, ended, pipeRest>>

\* text_encoder(prompt); del text_encoder; mx.clear_cache()
Embed ==
    /\ pc = "embed"
    /\ loaded' = loaded \ {"text_encoder"}
    /\ events' = Append(events, Ev("use", "text_encoder", tversion))
                     \o Release("text_encoder", tversion)
    /\ GoTo("load_transformer_weights")
    /\ UNCHANGED <<num_frames, ended, pipeRest>>

\* load_unified_weights, or mx.load and sanitize_transformer_weights
LoadTransformerWeights ==
    /\ pc = "load_transformer_weights"
    /\ loaded' = loaded \cup {"transformer_weights"}
    /\ GoTo("config")
    /\ UNCHANGED <<num_frames, ended, events, pipeRest>>

\* LTXModelConfig(...): the argument audio_in_channels reads the global name
\* AUDIO_LATENT_CHANNELS, which the module neither imports nor defines
BuildConfig ==
    /\ pc = "config"
    /\ Raise("NameError")
    /\ UNCHANGED <<num_frames, loaded, events, pipeRest>>

\* ------------------------------------------------------------------------
\* generate_video_with_audio_lora from the construction of the transformer on.
\* These statements run when the model configuration has been built, that is
\* when the global name AUDIO_LATENT_CHANNELS is bound for the module.
\* ------------------------------------------------------------------------
\* The statements of the body with the LoRA merge after the first stage
StepsLoraAfterStage1 ==
    <<"build_transformer", "encode_image", "init_stage_1", "denoise_stage_1",
      "apply_lora", "load_upsampler", "upsample", "init_stage_2", "denoise_stage_2",
      "release_transformer", "decode_video", "decode_audio", "encode_video", "mux",
      "return">>

\* The statements of the body in the order they are written
Steps ==
    <<"build_transformer", "apply_lora", "encode_image", "init_stage_1",
      "denoise_stage_1", "load_upsampler", "upsample", "init_stage_2", "denoise_stage_2",
      "release_transformer", "decode_video", "decode_audio", "encode_video", "mux",
      "return">>

StepAfter(step) == Steps[(CHOOSE i \in 1..Len(Steps) : Steps[i] = step) + 1]

\* The collaborator that fails in a run: apply_lora_weights, denoise_av and the
\* decoder raise, the video writer raises inside the try statement, and
\* mux_video_audio returns False
Failures == {"none", "apply_lora", "denoise_stage_1", "decode_video", "encode_video", "mux"}

NotExited == -1

\* The phases a call has run when it builds the transformer
PhasesBeforeTransformer ==
    <<"validate", "adjust_frames", "model_paths", "load_text_encoder", "embed",
      "load_transformer_weights", "config">>

PipeInit ==
    /\ pc = Steps[1]
    /\ height = 64 /\ width = 128
    /\ requested_frames = 9 /\ num_frames = 9
    /\ lora_file \in LoraPaths
    /\ enhancer = "off"
    /\ use_unified \in BOOLEAN
    /\ loaded = {"transformer_weights"}
    /\ phases = PhasesBeforeTransformer
    /\ ended = "running"
    /\ is_i2v \in BOOLEAN
    /\ failing \in Failures
    /\ save_audio_separately \in BOOLEAN
    /\ audio_path_given \in BOOLEAN
    /\ events = <<Ev("load", "text_encoder", 0), Ev("use", "text_encoder", 0)>>
                \o Release("text_encoder", 0)
    /\ tversion = 0
    /\ files = <<>>
    /\ emitted = <<>>
    /\ exit_code = NotExited

\* The inputs of the call and what main printed stay as they are
PipeKept ==
    UNCHANGED <<num_frames, is_i2v, failing, save_audio_separately, audio_path_given,
                emitted, exit_code>>

\* transformer = LTXModel(config); transformer.load_weights(...)
BuildTransformer ==
    /\ pc = "build_transformer"
    /\ loaded' = loaded \cup {"transformer"}
    /\ tversion' = tversion + 1
    /\ events' = Append(events, Ev("load", "transformer", tversion + 1))
    /\ GoTo(StepAfter("build_transformer"))
    /\ PipeKept /\ UNCHANGED <<ended, files>>

\* if lora_path: apply_lora_weights(transformer, lora_path, lora_strength)
ApplyLora ==
    /\ pc = "apply_lora"
    /\ IF lora_file = "none"
       THEN GoTo(StepAfter("apply_lora")) /\ UNCHANGED <<tversion, events, ended>>
       ELSE IF lora_file = "ok" /\ failing = "apply_lora"
       THEN /\ Raise("ValueError")
            /\ events' = Append(events, Ev("merge_start", "transformer", tversion))
            /\ UNCHANGED tversion
       ELSE /\ tversion' = IF lora_file = "ok" THEN tversion + 1 ELSE tversion
            /\ events' = events \o <<Ev("merge_start", "transformer", tversion),
                                     Ev("merge_end", "transformer", tversion')>>
            /\ GoTo(StepAfter("apply_lora"))
            /\ UNCHANGED ended
    /\ PipeKept /\ UNCHANGED <<loaded, files>>

\* if is_i2v: load_vae_encoder, the two encodings, del vae_encoder, mx.clear_cache()
EncodeImage ==
    /\ pc = "encode_image"
    /\ events' = IF is_i2v
                 THEN events \o <<Ev("load", "vae_encoder", tversion),
                                  Ev("use", "vae_encoder", tversion),
                                  Ev("use", "vae_encoder", tversion)>>
                             \o Release("vae_encoder", tversion)
                 ELSE events
    /\ GoTo(StepAfter("encode_image"))
    /\ PipeKept /\ UNCHANGED <<loaded, tversion, ended, files>>

\* The position grids and the initial latents of stage 1
InitStage1 ==
    /\ pc = "init_stage_1"
    /\ GoTo(StepAfter("init_stage_1"))
    /\ PipeKept /\ UNCHANGED <<loaded, tversion, events, ended, files>>

\* denoise_av(..., transformer, STAGE_1_SIGMAS, ...): its first and its last step
DenoiseStage1 ==
    /\ pc = "denoise_stage_1"
    /\ IF failing = "denoise_stage_1"
       THEN /\ Raise("RuntimeError")
            /\ events' = Append(events, Ev("step_1", "transformer", tversion))
       ELSE /\ events' = events \o <<Ev("step_1", "transformer", tversion),
                                     Ev("step_1", "transformer", tversion)>>
            /\ GoTo(StepAfter("denoise_stage_1"))
            /\ UNCHANGED ended
    /\ PipeKept /\ UNCHANGED <<loaded, tversion, files>>

\* load_upsampler; load_vae_decoder, its latents statistics, del vae_decoder,
\* mx.clear_cache()
LoadUpsampler ==
    /\ pc = "load_upsampler"
    /\ loaded' = loaded \cup {"upsampler"}
    /\ events' = events \o <<Ev("load", "upsampler", tversion),
                             Ev("load", "vae_decoder", tversion),
                             Ev("use", "vae_decoder", tversion)>>
                        \o Release("vae_decoder", tversion)
    /\ GoTo(StepAfter("load_upsampler"))
    /\ PipeKept /\ UNCHANGED <<tversion, ended, files>>

\* upsample_latents; del upsampler; mx.clear_cache()
Upsample ==
    /\ pc = "upsample"
    /\ loaded' = loaded \ {"upsampler"}
    /\ events' = Append(events, Ev("use", "upsampler", tversion))
                 \o Release("upsampler", tversion)
    /\ GoTo(StepAfter("upsample"))
    /\ PipeKept /\ UNCHANGED <<tversion, ended, files>>

\* The position grid and the initial latents of stage 2
InitStage2 ==
    /\ pc = "init_stage_2"
    /\ GoTo(StepAfter("init_stage_2"))
    /\ PipeKept /\ UNCHANGED <<loaded, tversion, events, ended, files>>

\* denoise_av(..., transformer, STAGE_2_SIGMAS, ...): its first and its last step
DenoiseStage2 ==
    /\ pc = "denoise_stage_2"
    /\ events' = events \o <<Ev("step_2", "transformer", tversion),
                             Ev("step_2", "transformer", tversion)>>
    /\ GoTo(StepAfter("denoise_stage_2"))
    /\ PipeKept /\ UNCHANGED <<loaded, tversion, ended, files>>

\* The transformer kept while the decoders run
ReleaseTransformerSkipped ==
    /\ pc = "release_transformer"
    /\ GoTo(StepAfter("release_transformer"))
    /\ PipeKept /\ UNCHANGED <<loaded, events, tversion, ended, files>>

\* del transformer; mx.clear_cache()
ReleaseTransformer ==
    /\ pc = "release_transformer"
    /\ loaded' = loaded \ {"transformer"}
    /\ events' = events \o Release("transformer", tversion)
    /\ GoTo(StepAfter("release_transformer"))
    /\ PipeKept /\ UNCHANGED <<tversion, ended, files>>

\* load_vae_decoder, the decoding, del vae_decoder, mx.clear_cache()
DecodeVideo ==
    /\ pc = "decode_video"
    /\ IF failing = "decode_video"
       THEN /\ Raise("RuntimeError")
            /\ loaded' = loaded \cup {"vae_decoder"}
            /\ events' = events \o <<Ev("load", "vae_decoder", tversion),
                                     Ev("use", "vae_decoder", tversion)>>
       ELSE /\ events' = events \o <<Ev("load", "vae_decoder", tversion),
                                     Ev("use", "vae_decoder", tversion)>>
                                \o Release("vae_decoder", tversion)
            /\ GoTo(StepAfter("decode_video"))
            /\ UNCHANGED <<loaded, ended>>
    /\ PipeKept /\ UNCHANGED <<tversion, files>>

\* load_audio_decoder, load_vocoder, the decoding, del audio_decoder, vocoder,
\* mx.clear_cache()
DecodeAudio ==
    /\ pc = "decode_audio"
    /\ events' = events \o <<Ev("load", "audio_decoder", tversion),
                             Ev("use", "audio_decoder", tversion),
                             Ev("use", "audio_decoder", tversion)>>
                        \o Release("audio_decoder", tversion)
    /\ GoTo(StepAfter("decode_audio"))
    /\ PipeKept /\ UNCHANGED <<loaded, tversion, ended, files>>

\* The try statement that writes temp_video_path; on an exception the call
\* returns None, None
EncodeVideo ==
    /\ pc = "encode_video"
    /\ IF failing = "encode_video"
       THEN /\ pc' = "returned"
            /\ ended' = "returned None"
            /\ phases' = Append(phases, pc)
            /\ UNCHANGED <<height, width, requested_frames, lora_file, enhancer, use_unified>>
            /\ UNCHANGED <<loraVars, normVars, twiceVars, noiseVars, serverVars, cleanVars, keyVars, wrapVars>>
            /\ UNCHANGED files
       ELSE /\ files' = ("temp" :> "video") @@ files
            /\ GoTo(StepAfter("encode_video"))
            /\ UNCHANGED ended
    /\ PipeKept /\ UNCHANGED <<loaded, tversion, events>>

\* keep_audio_file with output_audio_path left out
KeepAudioFileSeparatelyOnly(separately, given) == separately

\* keep_audio_file = save_audio_separately or output_audio_path is not None
KeepAudioFile(separately, given) == separately \/ given

\* save_audio, mux_video_audio, and the removal of the temporary files
Mux ==
    /\ pc = "mux"
    /\ files' = ("output" :> (IF failing = "mux" THEN files["temp"] ELSE "video+audio"))
                @@ (IF KeepAudioFile(save_audio_separately, audio_path_given)
                    THEN ("audio" :> "audio") ELSE <<>>)
    /\ GoTo(StepAfter("mux"))
    /\ PipeKept /\ UNCHANGED <<loaded, tversion, events, ended>>

\* return video_np, audio_np
Return ==
    /\ pc = "return"
    /\ pc' = "returned"
    /\ ended' = "returned video, audio"
    /\ phases' = Append(phases, pc)
    /\ UNCHANGED <<height, width, requested_frames, lora_file, enhancer, use_unified>>
    /\ UNCHANGED <<loraVars, normVars, twiceVars, noiseVars, serverVars, cleanVars, keyVars, wrapVars>>
    /\ PipeKept /\ UNCHANGED <<loaded, tversion, events, files>>

\* main: original_stdout = sys.stdout; sys.stdout = sys.stderr.  The file that
\* print writes to from then on
SysStdout == "stderr"

\* main: what follows the call of generate_video_with_audio_lora, which main
\* makes with output_audio_path=None.  sys.stdout is sys.stderr from the first
\* statement of main on.
MainReport ==
    /\ pc \in {"returned", "raised"}
    /\ ~audio_path_given
    /\ exit_code = NotExited
    /\ IF pc = "raised"
       THEN /\ emitted' = <<[stream |-> SysStdout, success |-> FALSE, error |-> ended]>>
            /\ exit_code' = 1
       ELSE /\ emitted' = <<[stream |-> "stderr", text |-> "SUCCESS"],
                            [stream |-> SysStdout, video_path |-> "output"]>>
            /\ exit_code' = 0
    /\ UNCHANGED <<genVars, is_i2v, failing, save_audio_separately, audio_path_given,
                   events, tversion, files>>
    /\ UNCHANGED <<loraVars, normVars, twiceVars, noiseVars, serverVars, cleanVars, keyVars, wrapVars>>

\* ------------------------------------------------------------------------
\* generate_video_with_audio_lora: the initial latents of the two stages,
\* followed at one position of the video latent and one of the audio latent.
\* Latent values are whole numbers; denoise_mask and image_strength are
\* counted in halves, sigmas in quarters, so a blend is a number of eighths.
\* ------------------------------------------------------------------------
MaxLatent == 1

Latents == (0 - MaxLatent)..MaxLatent

\* 1.0 as a mask value and as a sigma
MaskOne == 2

SigmaOne == 4

\* STAGE_1_SIGMAS[0]
Stage1Sigma0 == SigmaOne

\* STAGE_2_SIGMAS[0] is imported; the values it may have
Stage2Sigmas == 1..SigmaOne

LatentState(latent, clean_latent, denoise_mask) ==
    [latent |-> latent, clean_latent |-> clean_latent, denoise_mask |-> denoise_mask]

NoLatentState == LatentState(0, 0, MaskOne)

\* apply_conditioning(state, [VideoConditionByLatentIndex(latent, frame_idx,
\* strength)]) at one position: in the frame frame_idx both latents become the
\* image latent and the mask 1 - strength; elsewhere the state is kept
ApplyConditioning(state, in_frame, image_latent, strength) ==
    IF in_frame
    THEN LatentState(image_latent, image_latent, MaskOne - strength)
    ELSE state

ScaledMaskUnscaled(mask, noise_scale) == mask * SigmaOne

\* scaled_mask = denoise_mask * noise_scale
ScaledMask(mask, noise_scale) == mask * noise_scale

\* noise * scaled_mask + latent * (1.0 - scaled_mask)
Noised(noise, scaled_mask, latent) ==
    noise * scaled_mask + latent * (MaskOne * SigmaOne - scaled_mask)

RenoisedNoCarry(noise, noise_scale, latent) == MaskOne * (noise * noise_scale)

\* noise * noise_scale + latents * one_minus_scale
Renoised(noise, noise_scale, latent) ==
    MaskOne * (noise * noise_scale + latent * (SigmaOne - noise_scale))

\* The call, as far as the two inits read it
NoiseInit ==
    /\ nz_stage = 0
    /\ nz_i2v \in BOOLEAN
    /\ nz_cond \in BOOLEAN
    /\ nz_strength \in 0..MaskOne
    /\ nz_ref \in Latents
    /\ nz_sigma \in Stage2Sigmas
    /\ nz_state = NoLatentState
    /\ nz_prev = 0 /\ nz_noise = 0 /\ nz_audio_prev = 0 /\ nz_audio_noise = 0
    /\ video0 = 0 /\ audio0 = 0

NoiseKept == <<nz_i2v, nz_cond, nz_strength, nz_ref>>

\* Stage 1: a conditioned state blended with noise for I2V, noise otherwise
NoiseStage1 ==
    /\ nz_stage = 0
    /\ nz_stage' = 1
    /\ nz_sigma' = nz_sigma
    /\ \E noise \in Latents, audio_noise \in Latents :
        /\ nz_noise' = noise
        /\ nz_audio_noise' = audio_noise
        /\ nz_prev' = 0
        /\ nz_audio_prev' = 0
        /\ nz_state' = IF nz_i2v
                          THEN ApplyConditioning(LatentState(0, 0, MaskOne),
                                                 nz_cond, nz_ref, nz_strength)
                          ELSE NoLatentState
        /\ video0' = IF nz_i2v
                        THEN Noised(noise,
                                    ScaledMask(nz_state'.denoise_mask, Stage1Sigma0),
                                    nz_state'.latent)
                        ELSE MaskOne * SigmaOne * noise
        /\ audio0' = MaskOne * SigmaOne * audio_noise
    /\ UNCHANGED NoiseKept
    /\ UNCHANGED <<loraVars, normVars, twiceVars, genVars, pipeVars, serverVars, cleanVars, keyVars, wrapVars>>

\* Stage 2: the upsampled stage-1 video latent and the stage-1 audio latent,
\* noised again at STAGE_2_SIGMAS[0]
NoiseStage2 ==
    /\ nz_stage = 1
    /\ nz_stage' = 2
    /\ nz_sigma' = nz_sigma
    /\ \E video_latents \in Latents, audio_latents \in Latents,
          video_noise \in Latents, audio_noise \in Latents :
        /\ nz_prev' = video_latents
        /\ nz_audio_prev' = audio_latents
        /\ nz_noise' = video_noise
        /\ nz_audio_noise' = audio_noise
        /\ nz_state' = IF nz_i2v
                          THEN ApplyConditioning(LatentState(video_latents, 0, MaskOne),
                                                 nz_cond, nz_ref, nz_strength)
                          ELSE NoLatentState
        /\ video0' = IF nz_i2v
                        THEN Noised(video_noise,
                                    ScaledMask(nz_state'.denoise_mask, nz_sigma),
                                    nz_state'.latent)
                        ELSE Renoised(video_noise, nz_sigma, video_latents)
        /\ audio0' = Renoised(audio_noise, nz_sigma, audio_latents)
    /\ UNCHANGED NoiseKept
    /\ UNCHANGED <<loraVars, normVars, twiceVars, genVars, pipeVars, serverVars, cleanVars, keyVars, wrapVars>>

\* ------------------------------------------------------------------------
\* ltx_server.py: the request loop of main.  A request line is blank, or text
\* that is no JSON, or JSON: a list, or an object with a command and params.
\* ------------------------------------------------------------------------
MaxRequests == 2

\* A JSON object: the keys it has and their values (a key it has not holds
\* a filler that is never read).  dict.get(key, default)
Get(dict, key, default) == IF key \in dict.has THEN dict[key] ELSE default

DefaultSeed == 42

\* "params": an object, or a value that is no object (null, a string)
Params(type, has, image, seed) ==
    [type |-> type, has |-> has, image |-> image, output_path |-> "out.mp4",
     seed |-> seed, no_audio |-> TRUE]

ParamsSent ==
    { Params("object", {}, "", 0),
      Params("object", {"seed"}, "", 7),
      Params("object", {"image", "output_path"}, "in.png", 0),
      Params("object", {"image", "no_audio", "seed"}, "", 7),
      Params("null", {}, "", 0),
      Params("string", {}, "", 0) }

\* A request line: blank, text that is no JSON, a JSON list, a JSON object
Line(text, has, command, params) ==
    [text |-> text, has |-> has, command |-> command, params |-> params]

RequestLines ==
    { Line("blank", {}, "", Params("object", {}, "", 0)),
      Line("garbage", {}, "", Params("object", {}, "", 0)),
      Line("list", {}, "", Params("object", {}, "", 0)),
      Line("object", {"command"}, "ping", Params("object", {}, "", 0)),
      Line("object", {"command"}, "status", Params("object", {}, "", 0)),
      Line("object", {"params"}, "", Params("object", {}, "", 0)),
      Line("object", {"command"}, "generate", Params("object", {}, "", 0)) }
    \cup {Line("object", {"command", "params"}, "generate", p) : p \in ParamsSent}

\* What generate_av does in a call: it returns, raises an Exception, or the
\* process is interrupted while it runs
CallOutcomes == {"returns", "raises", "interrupted"}

\* The kwargs of lines 85-122, as far as the response reads them
Kwargs(params) ==
    [has |-> {"output_path", "seed"}
             \cup (IF Get(params, "image", "") # "" THEN {"image"} ELSE {})
             \cup (IF Get(params, "no_audio", FALSE) THEN {"no_audio"} ELSE {}),
     output_path |-> Get(params, "output_path", "output.mp4"),
     seed |-> Get(params, "seed", DefaultSeed),
     image |-> params.image,
     no_audio |-> TRUE]

ResultAlwaysT2v(kwargs) ==
    [success |-> TRUE, video_path |-> kwargs.output_path, seed |-> kwargs.seed,
     mode |-> "t2v", has_audio |-> ~Get(kwargs, "no_audio", FALSE)]

\* result = {"success": True, ...}
Result(kwargs) ==
    [success |-> TRUE, video_path |-> kwargs.output_path, seed |-> kwargs.seed,
     mode |-> IF Get(kwargs, "image", "") # "" THEN "i2v" ELSE "t2v",
     has_audio |-> ~Get(kwargs, "no_audio", FALSE)]

ErrorResultAsSuccess(message) == [success |-> TRUE, error |-> message]

\* result = {"success": False, "error": str(e)}
ErrorResult(message) == [success |-> FALSE, error |-> message]

\* The open files of the process: what descriptors 1 and 2 refer to, and the
\* duplicate of descriptor 1 kept while a generate request runs
Fds(out) == [out |-> out, err |-> "stderr", saved |-> "closed"]

\* The finally clause without the restore
RestoreSkipped(fds) == [fds EXCEPT !.saved = "closed"]

\* original_stdout_fd = os.dup(1); os.dup2(2, 1)
Redirect(fds) == [fds EXCEPT !.saved = fds.out, !.out = fds.err]

\* os.dup2(original_stdout_fd, 1); os.close(original_stdout_fd)
Restore(fds) == [fds EXCEPT !.out = fds.saved, !.saved = "closed"]

\* An operation of the process on its standard streams, with what descriptor
\* 1 refers to when it is made
Io(op, out) == [op |-> op, fd1 |-> out]

\* What a write through descriptor 1 adds to the original standard output
Through(out, text) == IF out = "stdout" THEN <<text>> ELSE <<>>

\* What generate_av and the libraries under it print
LibraryOutput == [log |-> "progress"]

ServerInit ==
    /\ stdin \in UNION {[1..n -> RequestLines] : n \in 0..MaxRequests}
    /\ stdout = <<>>
    /\ fd1 = "stdout"
    /\ io = <<>>
    /\ serving = TRUE
    /\ handled = <<>>

ServerRest == <<loraVars, normVars, twiceVars, genVars, pipeVars, noiseVars, cleanVars, keyVars, wrapVars>>

\* The loop has read a line and did `done` with it; `call` is how generate_av
\* ended, if the line came to it
Read(done, call) ==
    /\ handled' = Append(handled, [line |-> Head(stdin), did |-> done, call |-> call])
    /\ stdin' = Tail(stdin)

\* if not line: break
ReadEof ==
    /\ serving /\ stdin = <<>>
    /\ serving' = FALSE
    /\ io' = Append(io, Io("read", fd1))
    /\ UNCHANGED <<stdin, stdout, fd1, handled>>
    /\ UNCHANGED ServerRest

\* A line that is blank after strip(), or that json.loads rejects
SkipLine ==
    /\ serving /\ stdin # <<>>
    /\ Head(stdin).text \in {"blank", "garbage"}
    /\ Read(IF Head(stdin).text = "blank" THEN "skipped" ELSE "logged invalid JSON", "none")
    /\ io' = Append(io, Io("read", fd1))
    /\ UNCHANGED <<stdout, fd1, serving>>
    /\ UNCHANGED ServerRest

\* request.get on a JSON value that is no object raises AttributeError, which
\* the loop's except Exception logs before it breaks
LoopError ==
    /\ serving /\ stdin # <<>>
    /\ Head(stdin).text = "list"
    /\ Read("logged server loop error", "none")
    /\ serving' = FALSE
    /\ io' = Append(io, Io("read", fd1))
    /\ UNCHANGED <<stdout, fd1>>
    /\ UNCHANGED ServerRest

\* if cmd == "ping"
Ping ==
    /\ serving /\ stdin # <<>>
    /\ Head(stdin).text = "object"
    /\ Get(Head(stdin), "command", "None") = "ping"
    /\ Read("answered", "none")
    /\ io' = io \o <<Io("read", fd1), Io("response", fd1)>>
    /\ stdout' = stdout \o Through(fd1, [status |-> "pong"])
    /\ UNCHANGED <<fd1, serving>>
    /\ UNCHANGED ServerRest

\* A command that is neither ping nor generate: the loop reads the next line
OtherCommand ==
    /\ serving /\ stdin # <<>>
    /\ Head(stdin).text = "object"
    /\ Get(Head(stdin), "command", "None") \notin {"ping", "generate"}
    /\ Read("ignored", "none")
    /\ io' = Append(io, Io("read", fd1))
    /\ UNCHANGED <<stdout, fd1, serving>>
    /\ UNCHANGED ServerRest

\* if cmd == "generate": file descriptor 1 is pointed at stderr, the kwargs
\* are built, generate_av runs and prints, file descriptor 1 is restored in the
\* finally clause, and the result is printed
Generate ==
    /\ serving /\ stdin # <<>>
    /\ Head(stdin).text = "object"
    /\ Get(Head(stdin), "command", "None") = "generate"
    /\ LET params == Get(Head(stdin), "params", Params("object", {}, "", 0))
           during == Redirect(Fds(fd1))
           after  == Restore(during)
           ran    == <<Io("read", fd1), Io("library", during.out)>>
           print  == Io("response", after.out)
       IN /\ fd1' = after.out
          /\ IF params.type # "object"
             THEN /\ Read("answered", "kwargs raised")
                  /\ io' = io \o <<Io("read", fd1), print>>
                  /\ stdout' = stdout \o Through(after.out, ErrorResult("AttributeError"))
                  /\ UNCHANGED serving
             ELSE \E outcome \in CallOutcomes :
                    CASE outcome = "returns" ->
                           /\ Read("answered", "returned")
                           /\ io' = io \o ran \o <<print>>
                           /\ stdout' = stdout \o Through(during.out, LibraryOutput)
                                               \o Through(after.out, Result(Kwargs(params)))
                           /\ UNCHANGED serving
                      [] outcome = "raises" ->
                           /\ Read("answered", "raised")
                           /\ io' = io \o ran \o <<print>>
                           /\ stdout' = stdout \o Through(during.out, LibraryOutput)
                                               \o Through(after.out, ErrorResult("RuntimeError"))
                           /\ UNCHANGED serving
                      [] outcome = "interrupted" ->
                           /\ Read("interrupted", "interrupted")
                           /\ io' = io \o ran
                           /\ stdout' = stdout \o Through(during.out, LibraryOutput)
                           /\ serving' = FALSE
    /\ UNCHANGED ServerRest

\* ------------------------------------------------------------------------
\* enhance_prompt_preview.py and test_enhance_prompt_preview.py: the test
\* module imports _clean_response from enhance_prompt_preview and calls it on
\* a string.  A string is a sequence of characters.
\* ------------------------------------------------------------------------
MaxText == 4

Characters == {" ", "!", "a"}

Texts == UNION {[1..n -> Characters] : n \in 0..MaxText}

NotRun == [raised |-> "pending", value |-> <<>>]

\* The names enhance_prompt_preview binds at module level: its imports and main
ModuleNames == {"argparse", "json", "sys", "Path", "main"}

\* from enhance_prompt_preview import <name>
ImportFrom(names, name) == IF name \in names THEN "none" ELSE "ImportError"

CleanInit ==
    /\ tc_input \in Texts
    /\ tc_result = NotRun

\* The test module is run: its import statement, then the call on the string
TestCleanResponse ==
    /\ tc_result = NotRun
    /\ tc_result' = [raised |-> ImportFrom(ModuleNames, "_clean_response"), value |-> <<>>]
    /\ UNCHANGED tc_input
    /\ UNCHANGED <<loraVars, normVars, twiceVars, genVars, pipeVars, noiseVars, serverVars, keyVars, wrapVars>>

\* ------------------------------------------------------------------------
\* apply_lora_weights.sanitize_key on keys put together from pieces of text:
\* the two prefixes, external submodule names, parts of one, and a word
\* ------------------------------------------------------------------------
MaxPieces == 3

KeyPieces ==
    <<PfxDiffusionModel, PfxTransformer, ExtToOut, ExtFfIn, ExtLinear1,
      Dot \o SubSeq(W.to_out, 1, 3), SubSeq(W.to_out, 4, 6) \o Dot \o <<"0">> \o Dot,
      W.aux>>

\* The text of a key given by its pieces
RECURSIVE KeyText(_)
KeyText(pieces) ==
    IF pieces = <<>> THEN <<>> ELSE KeyPieces[Head(pieces)] \o KeyText(Tail(pieces))

NotSanitized == [called |-> FALSE, key |-> <<>>]

KeyInit ==
    /\ sk_pieces \in UNION {[1..n -> DOMAIN KeyPieces] : n \in 0..MaxPieces}
    /\ sk_out = NotSanitized

\* sanitized_base = sanitize_key(base_name)
SanitizeKey ==
    /\ ~sk_out.called
    /\ sk_out' = [called |-> TRUE, key |-> sanitize_key(KeyText(sk_pieces))]
    /\ UNCHANGED sk_pieces
    /\ UNCHANGED <<loraVars, normVars, twiceVars, genVars, pipeVars, noiseVars, serverVars,
                   cleanVars, wrapVars>>

\* ------------------------------------------------------------------------
\* The command-line wrappers av_generator.main and av_generator_lora.main:
\* the parsed arguments, the generation call made with them, and the object
\* printed after it
\* ------------------------------------------------------------------------
MaxSeed == 4

Wrappers == {"av_generator", "av_generator_lora"}

\* args = parser.parse_args(); av_generator has no --no-audio option
WrapperArgs ==
    {[wrapper |-> w, seed |-> s, image |-> i, no_audio |-> n] :
        w \in Wrappers, s \in 0..MaxSeed, i \in {"None", "image.png"}, n \in BOOLEAN}

NotCalled == [fn |-> "none", has |-> {}, seed |-> 0]

\* generate_av(**gen_kwargs)
GenKwargs(args) ==
    [fn   |-> "generate_av",
     has  |-> {"prompt", "height", "width", "num_frames", "model_repo", "output"}
              \cup (IF args.image # "None" THEN {"image"} ELSE {}),
     seed |-> 0]

\* generate_video_with_audio_lora(model_repo=args.model_repo, ...)
LoraKwargs(args) ==
    [fn   |-> "generate_video_with_audio_lora",
     has  |-> {"model_repo", "text_encoder_repo", "prompt", "height", "width",
               "num_frames", "seed", "fps", "output_path", "output_audio_path",
               "save_audio_separately", "verbose", "enhance_prompt",
               "use_uncensored_enhancer", "temperature", "image", "image_strength",
               "tiling", "lora_path", "lora_strength"},
     seed |-> args.seed]

\* result = {"video_path": ..., "seed": ..., "mode": ..., "has_audio": ...}
WrapperResult(args, has_audio) ==
    [video_path |-> "output.mp4", seed |-> args.seed,
     mode |-> IF args.image # "None" THEN "i2v" ELSE "t2v", has_audio |-> has_audio]

WrapInit ==
    /\ wr_args \in {a \in WrapperArgs : a.wrapper = "av_generator" => ~a.no_audio}
    /\ wr_call = NotCalled
    /\ wr_printed = <<>>

WrapRest == <<loraVars, normVars, twiceVars, genVars, pipeVars, noiseVars, serverVars,
              cleanVars, keyVars>>

\* The try statement of a wrapper's main: the import, the call `kwargs`, and
\* the result object, or the error object of an except clause
WrapperMain(kwargs, has_audio) ==
    /\ wr_printed = <<>>
    /\ \E outcome \in {"import fails", "returns", "raises"} :
         CASE outcome = "import fails" ->
                /\ wr_printed' = <<ErrorResult("ImportError")>>
                /\ UNCHANGED wr_call
           [] outcome = "returns" ->
                /\ wr_call' = kwargs
                /\ wr_printed' = <<WrapperResult(wr_args, has_audio)>>
           [] outcome = "raises" ->
                /\ wr_call' = kwargs
                /\ wr_printed' = <<ErrorResult("RuntimeError")>>
    /\ UNCHANGED wr_args
    /\ UNCHANGED WrapRest

\* av_generator.main
MainAvGenerator ==
    /\ wr_args.wrapper = "av_generator"
    /\ WrapperMain(GenKwargs(wr_args), TRUE)

\* av_generator_lora.main
MainAvGeneratorLora ==
    /\ wr_args.wrapper = "av_generator_lora"
    /\ WrapperMain(LoraKwargs(wr_args), ~wr_args.no_audio)

\* ------------------------------------------------------------------------
\* Specifications
\* ------------------------------------------------------------------------
NormIdle ==
    /\ base = 1 /\ alphas = 1 /\ downFirst = TRUE
    /\ grouped = {} /\ groupsDownUp = <<>> /\ groupsAB = <<>>
    /\ rank = 1 /\ scales = [downup |-> <<>>, ab |-> <<>>]

TwiceIdle ==
    /\ tw_archive = 1 /\ tw_strength = 0
    /\ w_twice = OrigWeights /\ times = 0
    /\ w_once = OrigWeights /\ once_done = FALSE

GenIdle ==
    /\ pc = "validate" /\ height = 64 /\ width = 64
    /\ requested_frames = 1 /\ num_frames = 1
    /\ lora_file = "none" /\ enhancer = "off" /\ use_unified = FALSE
    /\ loaded = {} /\ phases = <<>> /\ ended = "running"

PipeIdle ==
    /\ is_i2v = FALSE /\ failing = "none"
    /\ save_audio_separately = FALSE /\ audio_path_given = FALSE
    /\ events = <<>> /\ tversion = 0 /\ files = <<>>
    /\ emitted = <<>> /\ exit_code = NotExited

NoiseIdle ==
    /\ nz_stage = 0 /\ nz_i2v = FALSE /\ nz_cond = FALSE /\ nz_strength = 0
    /\ nz_state = NoLatentState
    /\ nz_sigma = SigmaOne /\ nz_ref = 0 /\ nz_prev = 0 /\ nz_noise = 0
    /\ nz_audio_prev = 0 /\ nz_audio_noise = 0 /\ video0 = 0 /\ audio0 = 0

ServerIdle ==
    /\ stdin = <<>> /\ stdout = <<>> /\ fd1 = "stdout" /\ io = <<>>
    /\ serving = FALSE /\ handled = <<>>

CleanIdle == tc_input = <<>> /\ tc_result = NotRun

KeyIdle == sk_pieces = <<>> /\ sk_out = NotSanitized

\* No other experiment is under way
WrapIdle ==
    /\ wr_args = [wrapper |-> "av_generator", seed |-> 0, image |-> "None", no_audio |-> FALSE]
    /\ wr_call = NotCalled /\ wr_printed = <<>>

LateIdle == NoiseIdle /\ ServerIdle /\ CleanIdle /\ KeyIdle /\ WrapIdle

\* Calls of apply_lora_weights on one model
Init == LoraInit /\ NormIdle /\ TwiceIdle /\ GenIdle /\ PipeIdle /\ LateIdle

Next == ApplyArchive \/ ApplyNoArchive

Spec == Init /\ [][Next]_vars

\* The grouping of one module's adapter under both conventions
InitNorm == NormInit /\ LoraInit /\ TwiceIdle /\ GenIdle /\ PipeIdle /\ LateIdle

NextNorm == GroupDownUp \/ GroupAB

SpecNorm == InitNorm /\ [][NextNorm]_vars

\* One adapter applied twice with s and once with 2s
InitTwice == TwiceInit /\ LoraInit /\ NormIdle /\ GenIdle /\ PipeIdle /\ LateIdle

NextTwice == ApplyS \/ ApplyDouble

SpecTwice == InitTwice /\ [][NextTwice]_vars

\* One call of generate_video_with_audio_lora
InitGen == GenInit /\ LoraInit /\ NormIdle /\ TwiceIdle /\ PipeIdle /\ LateIdle

NextGen ==
    \/ Validate
    \/ AdjustFrames
    \/ ModelPaths
    \/ LoadTextEncoder
    \/ EnhancePrompt
    \/ Embed
    \/ LoadTransformerWeights
    \/ BuildConfig

SpecGen == InitGen /\ [][NextGen]_vars

\* The call from the construction of the transformer on, and main's report
InitPipe == PipeInit /\ LoraInit /\ NormIdle /\ TwiceIdle /\ LateIdle

NextPipe ==
    \/ BuildTransformer
    \/ ApplyLora
    \/ EncodeImage
    \/ InitStage1
    \/ DenoiseStage1
    \/ LoadUpsampler
    \/ Upsample
    \/ InitStage2
    \/ DenoiseStage2
    \/ ReleaseTransformer
    \/ DecodeVideo
    \/ DecodeAudio
    \/ EncodeVideo
    \/ Mux
    \/ Return
    \/ MainReport

SpecPipe == InitPipe /\ [][NextPipe]_vars

\* The initial latents of the two stages
InitNoise == NoiseInit /\ LoraInit /\ NormIdle /\ TwiceIdle /\ GenIdle /\ PipeIdle
             /\ ServerIdle /\ CleanIdle /\ KeyIdle /\ WrapIdle

NextNoise == NoiseStage1 \/ NoiseStage2

SpecNoise == InitNoise /\ [][NextNoise]_vars

\* The request loop of ltx_server
InitServer == ServerInit /\ LoraInit /\ NormIdle /\ TwiceIdle /\ GenIdle /\ PipeIdle
              /\ NoiseIdle /\ CleanIdle /\ KeyIdle /\ WrapIdle

NextServer == ReadEof \/ SkipLine \/ LoopError \/ Ping \/ OtherCommand \/ Generate

SpecServer == InitServer /\ [][NextServer]_vars

\* The test of _clean_response
InitClean == CleanInit /\ LoraInit /\ NormIdle /\ TwiceIdle /\ GenIdle /\ PipeIdle
             /\ NoiseIdle /\ ServerIdle /\ KeyIdle /\ WrapIdle

NextClean == TestCleanResponse

SpecClean == InitClean /\ [][NextClean]_vars

\* sanitize_key on one key
InitKey == KeyInit /\ LoraInit /\ NormIdle /\ TwiceIdle /\ GenIdle /\ PipeIdle
           /\ NoiseIdle /\ ServerIdle /\ CleanIdle /\ WrapIdle

NextKey == SanitizeKey

SpecKey == InitKey /\ [][NextKey]_vars

\* The wrappers' main on one command line
InitWrap == WrapInit /\ LoraInit /\ NormIdle /\ TwiceIdle /\ GenIdle /\ PipeIdle
            /\ NoiseIdle /\ ServerIdle /\ CleanIdle /\ KeyIdle

NextWrap == MainAvGenerator \/ MainAvGeneratorLora

SpecWrap == InitWrap /\ [][NextWrap]_vars

\* ------------------------------------------------------------------------
\* C1, C2: normalisation and grouping
\* ------------------------------------------------------------------------
\* The host name of a module path, segment by segment: the outer prefix is
\* dropped and every external submodule name is replaced by the host's.
SegmentRules ==
    <<<<<<W.to_out, <<"0">>>>, <<W.to_out>>>>,
      <<<<W.ff, W.net, <<"0">>, W.proj>>, <<W.ff, W.proj_in>>>>,
      <<<<W.ff, W.net, <<"2">>>>, <<W.ff, W.proj_out>>>>,
      <<<<W.audio_ff, W.net, <<"0">>, W.proj>>, <<W.audio_ff, W.proj_in>>>>,
      <<<<W.audio_ff, W.net, <<"2">>>>, <<W.audio_ff, W.proj_out>>>>,
      <<<<W.linear_1>>, <<W.linear1>>>>,
      <<<<W.linear_2>>, <<W.linear2>>>>>>

StripOuter(segs) ==
    LET s1 == IF StartsWith(segs, <<W.model, W.diffusion_model>>) THEN Drop(segs, 2) ELSE segs
    IN  IF StartsWith(s1, <<W.transformer>>) THEN Drop(s1, 1) ELSE s1

RECURSIVE RewriteSegments(_)
RewriteSegments(segs) ==
    IF Len(segs) = 0 THEN <<>>
    ELSE IF \E i \in DOMAIN SegmentRules : StartsWith(segs, SegmentRules[i][1])
    THEN LET i == CHOOSE i \in DOMAIN SegmentRules : StartsWith(segs, SegmentRules[i][1])
         IN  SegmentRules[i][2] \o RewriteSegments(Drop(segs, Len(SegmentRules[i][1])))
    ELSE <<Head(segs)>> \o RewriteSegments(Tail(segs))

HostPath(b) == JoinDots(RewriteSegments(StripOuter(SplitDots(b))))

UsesExternalNames(b) == RewriteSegments(StripOuter(SplitDots(b))) # StripOuter(SplitDots(b))

GroupNames(groups) == [i \in 1..Len(groups) |-> groups[i].name]

\* C1: for every adapter key whose module path uses an external submodule name,
\* also as the last segment before the lora_down / lora_up / lora_A / lora_B
\* suffix, the grouping key is the path with the outer prefix stripped and that
\* segment rewritten to the host's name.
C1_HostConvention ==
    UsesExternalNames(BaseNames[base]) =>
        /\ "downup" \in grouped => GroupNames(groupsDownUp) = <<HostPath(BaseNames[base])>>
        /\ "ab" \in grouped => GroupNames(groupsAB) = <<HostPath(BaseNames[base])>>

\* C2: the archive holding b.lora_A.* and b.lora_B.* yields the same group map as
\* the archive holding the same tensors under b.lora_down.* and b.lora_up.*: one
\* group, the lora_A tensor as down, the lora_B tensor as up, the same alpha.
C2_ConventionAgnostic ==
    grouped = {"downup", "ab"} =>
        /\ groupsAB = groupsDownUp
        /\ Len(groupsAB) = 1
        /\ groupsAB[1].w["down"] = DownOfRank[rank]
        /\ groupsAB[1].w["up"] = UpOfRank[rank]
        /\ ("alpha" \in DOMAIN groupsAB[1].w) = (AlphaSets[alphas] # {})

C2_Witness ==
    /\ grouped = {"downup", "ab"}
    /\ Len(groupsAB) = 1
    /\ AlphaSets[alphas] = {SufAlpha, SufLoraAlpha}
    /\ groupsAB[1].w["alpha"] = Scalar(2)
    /\ ~downFirst

\* ------------------------------------------------------------------------
\* C3 .. C8: calls of apply_lora_weights on one model
\* ------------------------------------------------------------------------
LastCall == calls[Len(calls)]

Complete(g) == "down" \in DOMAIN g.w /\ "up" \in DOMAIN g.w

\* lora_groups of every archive
GroupsHost == GroupWeights(ArchHost)
GroupsAB == GroupWeights(ArchAB)
GroupsExt == GroupWeights(ArchExt)
GroupsPaths == GroupWeights(ArchPaths)
GroupsShapes == GroupWeights(ArchShapes)
GroupsRank0 == GroupWeights(ArchRank0)
GroupsAlpha == GroupWeights(ArchAlpha)
ArchiveGroups ==
    <<GroupsHost, GroupsAB, GroupsExt, GroupsPaths, GroupsShapes, GroupsRank0, GroupsAlpha>>

\* The groups of the last call's archive
LastGroups == ArchiveGroups[LastCall.arch]

Outcomes(l, outcome) == {i \in 1..Len(l) : l[i].outcome = outcome}

\* C3: when a group's path holds a segment no strategy resolves (an index out
\* of range too) or ends at an object that is no linear layer, the call raises
\* nothing, changes no weight for that group, and merges every other group of
\* the archive whose path resolves to a linear layer.
C3_SkipAndContinue ==
    (/\ calls # <<>>
     /\ LastCall.file = "ok"
     /\ \E i \in 1..Len(LastGroups) :
            /\ Complete(LastGroups[i])
            /\ \/ ResolvePath(LastGroups[i].name) = Unresolved
               \/ ~Graph[ResolvePath(LastGroups[i].name)].linear)
    => /\ raised = "none"
       /\ \A i \in 1..Len(LastGroups) :
            (/\ Complete(LastGroups[i])
             /\ ResolvePath(LastGroups[i].name) \in Linears)
            => \E j \in Outcomes(log, "merged") : log[j].name = LastGroups[i].name

\* The group called name in the archive of call c
GroupNamed(c, name) ==
    ArchiveGroups[c.arch][GroupIndex(ArchiveGroups[c.arch], name)]

\* The sum of the deltas of the entries i.. of call c's log merged into layer l
RECURSIVE CallDeltaFrom(_, _, _)
CallDeltaFrom(c, l, i) ==
    IF i > Len(c.log) THEN ZeroLike(OrigWeights[l])
    ELSE IF c.log[i].outcome = "merged" /\ c.log[i].target = l
    THEN MatAdd(CallDeltaFrom(c, l, i + 1), Delta(GroupNamed(c, c.log[i].name).w, c.strength))
    ELSE CallDeltaFrom(c, l, i + 1)

\* The sum of the deltas of the calls cs[i..] merged into layer l
RECURSIVE DeltaSumFrom(_, _, _)
DeltaSumFrom(cs, l, i) ==
    IF i > Len(cs) THEN ZeroLike(OrigWeights[l])
    ELSE MatAdd(CallDeltaFrom(cs[i], l, 1), DeltaSumFrom(cs, l, i + 1))

Reverse(q) == [i \in 1..Len(q) |-> q[Len(q) + 1 - i]]

\* The weights after the calls cs[i..] made on a model holding w
RECURSIVE WeightsAfter(_, _, _)
WeightsAfter(w, cs, i) ==
    IF w = <<>> \/ i > Len(cs) THEN w
    ELSE WeightsAfter(apply_lora_weights(w, cs[i].file, Archives[cs[i].arch], cs[i].strength).weights,
                      cs, i + 1)

\* C4: after any sequence of calls every linear layer's weight is its original
\* weight plus the sum of the deltas (up x down x scale x strength) of the calls
\* merged into it, whatever the order of the calls; the same file applied twice
\* adds twice its delta.
C4_Additive ==
    /\ \A l \in Linears : weights[l] = MatAdd(OrigWeights[l], DeltaSumFrom(calls, l, 1))
    /\ weights = WeightsAfter(OrigWeights, Reverse(calls), 1)

C4_Witness ==
    /\ Len(calls) = 2
    /\ calls[1] = calls[2]
    /\ calls[1].arch = 1 /\ calls[1].strength = 1 /\ calls[1].file = "ok"
    /\ weights["L_out"] = Mat(2, 2, <<<<4, 2>>, <<0, 4>>>>)

\* The weights after n calls on the archive a with strength s
RECURSIVE AfterCalls(_, _, _, _)
AfterCalls(w, a, s, n) ==
    IF n = 0 THEN w
    ELSE AfterCalls(apply_lora_weights(w, "ok", Archives[a], s).weights, a, s, n - 1)

\* The layers a group with an alpha / without one is merged into from archive a
MergedInto(a, withAlpha) ==
    {ResolvePath(ArchiveGroups[a][i].name) :
        i \in {i \in 1..Len(ArchiveGroups[a]) :
                 /\ Complete(ArchiveGroups[a][i])
                 /\ ("alpha" \in DOMAIN ArchiveGroups[a][i].w) = withAlpha}}
    \cap Linears

\* C5 (amended): for every adapter entry, with an alpha or without one, the
\* file applied twice with strength s leaves the same weights as the file
\* applied once with strength 2s: the delta is linear in the strength, and
\* alpha / rank does not depend on it.
C5_LinearInStrength ==
    (times = 2 /\ once_done) => w_twice = w_once

C5_Witness ==
    /\ times = 2 /\ once_done
    /\ tw_strength = 1
    /\ "L_out" \in MergedInto(tw_archive, TRUE)
    /\ w_twice["L_out"] # OrigWeights["L_out"]
    /\ w_twice["L_out"] = w_once["L_out"]

\* C5 as stated: some entry with an alpha and some strength s give different
\* weights when the file is applied twice with s and once with 2s, and the two
\* are equal for the entries without alpha.
C5_AlphaBreaksLinearity ==
    /\ \E a \in DOMAIN Archives, s \in TwiceStrengths :
           \E l \in MergedInto(a, TRUE) :
               AfterCalls(OrigWeights, a, s, 2)[l] # AfterCalls(OrigWeights, a, 2 * s, 1)[l]
    /\ \A l \in MergedInto(tw_archive, FALSE) :
           (times = 2 /\ once_done) => w_twice[l] = w_once[l]

\* C6: a call with strength 0 leaves the weight of every linear layer as it
\* was before the call, matched by an adapter entry or not.
C6_StrengthZero ==
    [][(Len(calls') = Len(calls) + 1 /\ calls'[Len(calls')].strength = 0)
       => weights' = weights]_vars

\* The child of node n a segment addresses, by strategy
ChildBy(n, part) ==
    [attribute |-> IF part \in DOMAIN Graph[n].attrs THEN {Graph[n].attrs[part]} ELSE {},
     key |-> IF Graph[n].isdict /\ part \in DOMAIN Graph[n].skeys
             THEN {Graph[n].skeys[part]} ELSE {},
     intkey |-> IF Graph[n].isdict /\ IsDigit(part)
                THEN {Graph[n].ikeys[k] : k \in {k \in DOMAIN Graph[n].ikeys : k = ParseInt(part)}}
                ELSE {},
     index |-> IF Graph[n].islist /\ IsDigit(part)
               THEN {Graph[n].items[k] : k \in {k \in 1..Len(Graph[n].items) : k = ParseInt(part) + 1}}
               ELSE {}]

StrategyOrder == <<"attribute", "key", "intkey", "index">>

\* The child addressed under the first strategy, in StrategyOrder, that has one
Addressed(n, part) ==
    LET by == ChildBy(n, part)
        ok == {i \in 1..Len(StrategyOrder) : by[StrategyOrder[i]] # {}}
    IN  IF ok = {} THEN Unresolved
        ELSE CHOOSE m \in by[StrategyOrder[CHOOSE i \in ok : \A j \in ok : i <= j]] : TRUE

RECURSIVE AddressedFrom(_, _)
AddressedFrom(n, parts) ==
    IF Len(parts) = 0 \/ n = Unresolved THEN n
    ELSE AddressedFrom(Addressed(n, Head(parts)), Tail(parts))

\* C7: for a dotted path whose segments address children by attribute name,
\* mapping key (string or integer) or in-range sequence index, the resolver ends
\* at the addressed object, at each segment under the first strategy that
\* succeeds in the order attribute, mapping key, integer mapping key, index.
C7_Resolver ==
    \A i \in 1..Len(log) :
        log[i].outcome # "incomplete"
        => log[i].target = AddressedFrom("root", SplitDots(log[i].name))

C7_Witness ==
    /\ calls # <<>> /\ LastCall.arch = 4 /\ LastCall.file = "ok"
    /\ {log[i].target : i \in 1..Len(log)} = {Unresolved, "qlin", "L_aux", "L_7", "L_lin", "builtin", "s0"}
    /\ applied_count = 3

\* C8: a group without a down or without an up tensor changes no weight and
\* raises nothing; a weight changes only if a group holding both resolved to
\* that layer; the count reported equals the number of groups merged, and a
\* call that merges nothing still returns.
C8_IncompleteDropped ==
    [][Len(calls') = Len(calls) + 1
       => /\ \A l \in Linears :
                weights'[l] # weights[l]
                => \E j \in Outcomes(log', "merged") :
                       /\ log'[j].target = l
                       /\ Complete(GroupNamed(calls'[Len(calls')], log'[j].name))
          /\ \A j \in 1..Len(log') :
                ~Complete(GroupNamed(calls'[Len(calls')], log'[j].name))
                => log'[j].outcome = "incomplete"
          /\ \A j \in Outcomes(log', "incomplete") : raised' = "none" \/ j < Len(log')
          /\ applied_count' # NotReported
                => applied_count' = Cardinality(Outcomes(log', "merged"))
          /\ (calls'[Len(calls')].file = "ok" /\ raised' = "none")
                => applied_count' = Cardinality(Outcomes(log', "merged"))]_vars

C8_Witness ==
    /\ calls # <<>> /\ LastCall.file = "ok"
    /\ Outcomes(log, "incomplete") # {}
    /\ applied_count = 0
    /\ raised = "none"
    /\ weights = OrigWeights

\* ------------------------------------------------------------------------
\* C9, C10: generate_video_with_audio_lora
\* ------------------------------------------------------------------------
\* The call has ended: it returned or raised
Ended == pc \in {"returned", "raised"}

\* C9: when the LoRA path does not exist or the archive cannot be loaded,
\* apply_lora_weights returns normally without changing a weight, and
\* generate_video_with_audio_lora goes on to denoising with the unmodified
\* transformer weights.
C9_MissingLoraSkipped ==
    (Ended /\ lora_file \in {"missing", "unreadable"}
           /\ height % 64 = 0 /\ width % 64 = 0)
    => /\ ended = "running"
       /\ \E i \in 1..Len(phases) : phases[i] = "denoise_stage_1"

\* C9, the part on apply_lora_weights alone: a call on a path that does not
\* exist or cannot be loaded returns normally, merges nothing and leaves every
\* weight as it was.
C9_NoArchiveNoChange ==
    [][(Len(calls') = Len(calls) + 1 /\ calls'[Len(calls')].file # "ok")
       => /\ weights' = weights
          /\ raised' = "none"
          /\ log' = <<>>
          /\ applied_count' = NotReported]_vars

\* C11: when height or width is no multiple of 64 the call ends with the
\* assertion's error in its first statement: no model path has been resolved
\* and no model object or weight has been loaded.
C11_RejectedBeforeLoad ==
    (height % 64 # 0 \/ width % 64 # 0)
    => /\ loaded = {}
       /\ \A i \in 1..Len(phases) : phases[i] = "validate"
       /\ Ended => (ended = "AssertionError" /\ phases = <<"validate">>)

C11_Witness ==
    /\ Ended
    /\ ended = "AssertionError"
    /\ height = 64 /\ width = 100
    /\ loaded = {}

\* C12: for every valid configuration the call completes stage-1 denoising,
\* upsampling and stage-2 denoising, hands both latents to decoding and returns
\* the decoded video and audio.
C12_Completes ==
    (Ended /\ height % 64 = 0 /\ width % 64 = 0)
    => /\ pc = "returned"
       /\ \A ph \in {"denoise_stage_1", "upsample", "denoise_stage_2", "decode_video", "decode_audio"} :
              \E i \in 1..Len(phases) : phases[i] = ph

\* The distance between two frame counts
Distance(a, b) == IF a >= b THEN a - b ELSE b - a

\* num_frames has been adjusted
FramesAdjusted == \E i \in 1..Len(phases) : phases[i] = "adjust_frames"

\* C10: the frame count used after the adjustment is 1 modulo 8; it is
\* num_frames when num_frames is 1 modulo 8, and otherwise no value 8k + 1 is
\* nearer to num_frames (64 gives 65, 66 gives 65, 73 stays 73).
C10_FramesAdjusted ==
    FramesAdjusted
    => /\ num_frames % 8 = 1
       /\ requested_frames % 8 = 1 => num_frames = requested_frames
       /\ \A k \in (0 - MaxNegFrames - 2)..(MaxFrames + 2) :
              Distance(num_frames, requested_frames)
                  <= Distance(8 * k + 1, requested_frames)
       /\ requested_frames = 64 => num_frames = 65
       /\ requested_frames = 66 => num_frames = 65
       /\ requested_frames = 73 => num_frames = 73

C10_Witness ==
    /\ FramesAdjusted
    /\ requested_frames = 64
    /\ num_frames = 65

\* ------------------------------------------------------------------------
\* C13 .. C19: the pipeline from the transformer on
\* ------------------------------------------------------------------------
\* The positions of the events of a kind on an object
EventsOf(kind, obj) ==
    {i \in 1..Len(events) : events[i].kind = kind /\ events[i].obj = obj}

\* The positions at which the transformer is invoked or released
TransformerRuns ==
    EventsOf("step_1", "transformer") \cup EventsOf("step_2", "transformer")
    \cup EventsOf("del", "transformer")

\* C13: with a lora_path the merge starts after the transformer's base weights
\* are loaded and is complete before the first transformer invocation of stage
\* 1; it runs at most once, and the transformer's weights are the same from the
\* first denoising step of stage 1 to the release of the transformer.
C13_MergeBeforeDenoising ==
    /\ Cardinality(EventsOf("merge_start", "transformer")) <= 1
    /\ \A m \in EventsOf("merge_start", "transformer") :
           \E l \in EventsOf("load", "transformer") : l < m
    /\ \A m \in EventsOf("merge_start", "transformer") \cup EventsOf("merge_end", "transformer") :
           \A i \in TransformerRuns : m < i
    /\ (lora_file # "none" /\ EventsOf("step_1", "transformer") # {})
           => EventsOf("merge_end", "transformer") # {}
    /\ \A i, j \in TransformerRuns : events[i].version = events[j].version

C13_Witness ==
    /\ pc = "returned"
    /\ lora_file = "ok"
    /\ \E m \in EventsOf("merge_end", "transformer") : events[m].version = 2
    /\ \E d \in EventsOf("del", "transformer") : events[d].version = 2
    /\ Cardinality(EventsOf("step_1", "transformer")) = 2


\* The first sigma of the stage whose initial latents have been set, in quarters
Sigma0 == IF nz_stage = 1 THEN 4 ELSE nz_sigma

C15_RenoisedAtStage2 ==
    nz_stage = 2 =>
        /\ audio0 = 2 * (nz_audio_noise * nz_sigma + nz_audio_prev * (4 - nz_sigma))
        /\ (~nz_i2v \/ ~nz_cond) =>
               video0 = 2 * (nz_noise * nz_sigma + nz_prev * (4 - nz_sigma))

\* Stage 2 with stage-1 latents that are not zero, with an image and without
C15_Witness ==
    /\ nz_stage = 2 /\ ~nz_cond
    /\ nz_audio_prev # 0 /\ nz_prev # 0
    /\ nz_audio_noise # 0 /\ nz_sigma \in 1..3


\* The events in which a model object is loaded or run
Engaging == {"load", "use", "step_1", "step_2", "merge_start", "merge_end"}

Running == {"use", "step_1", "step_2"}

\* C16: the text encoder, the VAE encoder, the upsampler, the transformer, the
\* VAE decoder and the audio decoder with the vocoder are each released after
\* their last use and before another object is loaded or run; every release
\* is immediately followed by a cache clear; and the cache is cleared between
\* the last step of stage 1 and the first step of stage 2.
C16_ReleasedAndCleared ==
    /\ \A d \in 1..Len(events) :
           events[d].kind = "del" =>
               /\ d < Len(events)
               /\ events[d + 1].kind = "clear_cache"
               /\ \E u \in 1..(d - 1) :
                      /\ events[u].obj = events[d].obj
                      /\ events[u].kind \in Running
                      /\ \A k \in (u + 1)..(d - 1) : events[k].kind \notin Engaging
    /\ \A u \in 1..Len(events) :
           events[u].kind \in Running =>
               \E l \in 1..(u - 1) :
                   /\ events[l].kind = "load" /\ events[l].obj = events[u].obj
                   /\ \A k \in (l + 1)..(u - 1) :
                          ~(events[k].kind = "del" /\ events[k].obj = events[u].obj)
    /\ pc = "returned" =>
           \A l \in EventsOf("load", "text_encoder") \cup EventsOf("load", "vae_encoder")
                    \cup EventsOf("load", "upsampler") \cup EventsOf("load", "transformer")
                    \cup EventsOf("load", "vae_decoder") \cup EventsOf("load", "audio_decoder") :
               \E d \in (l + 1)..Len(events) :
                   events[d].kind = "del" /\ events[d].obj = events[l].obj
    /\ \A i \in EventsOf("step_2", "transformer") :
           /\ \A o \in {"text_encoder", "vae_encoder", "upsampler", "vae_decoder"} :
                  \A l \in EventsOf("load", o) :
                      l < i => \E d \in (l + 1)..(i - 1) :
                                   events[d].kind = "del" /\ events[d].obj = o
           /\ \E c \in 1..(i - 1) :
                  /\ events[c].kind = "clear_cache"
                  /\ \A s \in EventsOf("step_1", "transformer") : s < c

\* An image-to-video run that has returned its video and audio
C16_Witness ==
    /\ pc = "returned" /\ ended = "returned video, audio" /\ is_i2v
    /\ EventsOf("del", "vae_encoder") # {} /\ EventsOf("del", "audio_decoder") # {}
    /\ EventsOf("step_2", "transformer") # {}


\* What main has printed
Printed == {emitted[i] : i \in 1..Len(emitted)}

C19_FilesAfterMux ==
    (Len(phases) > 0 /\ phases[Len(phases)] \in {"mux", "return"}) =>
        /\ "output" \in DOMAIN files
        /\ "temp" \notin DOMAIN files
        /\ failing = "mux" => files["output"] = "video"
        /\ failing # "mux" => files["output"] = "video+audio"
        /\ "audio" \notin DOMAIN files <=> (~save_audio_separately /\ ~audio_path_given)

\* A call whose muxing failed and that was given output_audio_path only
C19_Witness ==
    /\ pc = "returned" /\ failing = "mux"
    /\ audio_path_given /\ ~save_audio_separately
    /\ "audio" \in DOMAIN files


\* The request lines read so far that the loop answered on stdout
Answered(n) == {j \in 1..n : handled[j].did = "answered"}

IsGenerate(line) ==
    line.text = "object" /\ "command" \in line.has /\ line.command = "generate"

\* C17: for every generate request the server writes exactly one response
\* line to stdout: success = true with video_path, seed and mode when
\* generate_av returns, success = false with an error when generate_av or the
\* mapping of params raises an exception; the loop then goes on with the next
\* request line.
C17_OneResponsePerGenerate ==
    /\ Len(stdout) = Cardinality(Answered(Len(handled)))
    /\ \A i \in 1..Len(handled) :
           (IsGenerate(handled[i].line) /\ handled[i].call # "interrupted") =>
               LET k == Cardinality(Answered(i))
                   p == handled[i].line.params
               IN /\ handled[i].did = "answered"
                  /\ k = Cardinality(Answered(i - 1)) + 1
                  /\ handled[i].call = "returned" =>
                         /\ stdout[k].success = TRUE
                         /\ {"video_path", "seed", "mode"} \subseteq DOMAIN stdout[k]
                         /\ stdout[k].video_path
                                = IF "params" \in handled[i].line.has /\ "output_path" \in p.has
                                  THEN p.output_path ELSE "output.mp4"
                         /\ stdout[k].seed
                                = IF "params" \in handled[i].line.has /\ "seed" \in p.has
                                  THEN p.seed ELSE 42
                         /\ stdout[k].mode
                                = IF "params" \in handled[i].line.has /\ "image" \in p.has
                                     /\ p.image # ""
                                  THEN "i2v" ELSE "t2v"
                  /\ handled[i].call \in {"raised", "kwargs raised"} =>
                         /\ stdout[k].success = FALSE
                         /\ "error" \in DOMAIN stdout[k]
                  /\ (i = Len(handled) /\ ~serving) => stdin = <<>>

\* A generate request whose call raised, followed by one whose call returned
\* with an image, both answered
C17_Witness ==
    /\ Len(handled) = 2 /\ Len(stdout) = 2
    /\ IsGenerate(handled[1].line) /\ handled[1].call = "raised"
    /\ IsGenerate(handled[2].line) /\ handled[2].call = "returned"
    /\ stdout[2].mode = "i2v"
    /\ serving


IsAlnum(char) == char \in {"a"}

RECURSIVE DropLeadingSpecial(_)
DropLeadingSpecial(s) ==
    IF s = <<>> \/ IsAlnum(Head(s)) THEN s ELSE DropLeadingSpecial(Tail(s))

RECURSIVE DropTrailingSpace(_)
DropTrailingSpace(s) ==
    IF s = <<>> \/ s[Len(s)] # " " THEN s
    ELSE DropTrailingSpace(SubSeq(s, 1, Len(s) - 1))

\* C20: enhance_prompt_preview provides _clean_response: called on a string
\* it returns the string without leading and trailing whitespace and without
\* a leading run of non-alphanumeric characters and the whitespace after it,
\* the text from the first alphanumeric character on unchanged, and the empty
\* string for an input of whitespace and special characters only.
C20_CleanResponseProvided ==
    tc_result # NotRun =>
        /\ tc_result.raised = "none"
        /\ tc_result.value = DropTrailingSpace(DropLeadingSpecial(tc_input))


\* A group whose tensors can be merged: both tensors, a path that resolves to
\* a linear layer, up and down that multiply, a rank above 0, and a scalar
\* alpha if there is one
ValidEntry(g) ==
    /\ Complete(g)
    /\ ResolvePath(g.name) \in Linears
    /\ g.w["up"].c = g.w["down"].r
    /\ g.w["down"].r > 0
    /\ "alpha" \in DOMAIN g.w => g.w["alpha"].r * g.w["alpha"].c = 1

\* C21: no single adapter entry aborts apply_lora_weights: on every archive,
\* one with an entry whose down and up do not fit each other or the layer's
\* weight, whose down has rank 0 with an alpha present, or whose alpha is no
\* scalar included, the call returns normally and every other valid entry of the
\* archive is merged.
C21_NeverAborted ==
    (calls # <<>> /\ LastCall.file = "ok") =>
        /\ raised = "none"
        /\ \A i \in 1..Len(LastGroups) :
               ValidEntry(LastGroups[i])
                   => \E j \in Outcomes(log, "merged") : log[j].name = LastGroups[i].name


\* The alpha stored under the first spelling present, searching .lora.alpha,
\* .alpha, .lora_alpha in that order
FirstAlpha(sufs) ==
    IF SufLoraDotAlpha \in sufs THEN AlphaValue(SufLoraDotAlpha).d[1][1]
    ELSE IF SufAlpha \in sufs THEN AlphaValue(SufAlpha).d[1][1]
    ELSE AlphaValue(SufLoraAlpha).d[1][1]

\* C22: the scale of a module is alpha / rank, rank being the row count of down
\* and alpha the value under the first key present among base.lora.alpha,
\* base.alpha and base.lora_alpha; it is 1.0 when none of the three is present.
\* (Scales are counted in halves.)
C22_ScaleAlphaOverRank ==
    \A conv \in grouped :
        /\ Len(scales[conv]) = 1
        /\ AlphaSets[alphas] = {} => scales[conv][1] = 2
        /\ AlphaSets[alphas] # {} =>
               scales[conv][1] * rank = 2 * FirstAlpha(AlphaSets[alphas])

\* Both conventions grouped for an archive of rank 2 that holds base.alpha and
\* base.lora_alpha, the latter listed first
C22_Witness ==
    /\ grouped = {"downup", "ab"}
    /\ AlphaSets[alphas] = {SufAlpha, SufLoraAlpha}
    /\ rank = 2
    /\ scales["downup"] = <<2>>


\* ------------------------------------------------------------------------
\* C23: the rules of sanitize_key replayed on a key whose characters carry
\* the position they had in the input key (0 for a character a replacement
\* wrote)
\* ------------------------------------------------------------------------
Traced(key) == [s |-> key, p |-> [i \in 1..Len(key) |-> i], clean |-> TRUE]

\* The number of characters two texts share at their start
RECURSIVE CommonPrefix(_, _)
CommonPrefix(a, b) ==
    IF a = <<>> \/ b = <<>> \/ Head(a) # Head(b) THEN 0
    ELSE 1 + CommonPrefix(Tail(a), Tail(b))

\* The positions a replacement's text takes over from the text it replaces:
\* what the two share at their end, then what the rest shares at the start
Carried(old, new, from) ==
    LET cs   == CommonPrefix(Reverse(old), Reverse(new))
        cp   == CommonPrefix(SubSeq(old, 1, Len(old) - cs), SubSeq(new, 1, Len(new) - cs))
    IN  [j \in 1..Len(new) |->
            IF j <= cp THEN from[j]
            ELSE IF j > Len(new) - cs THEN from[Len(old) - Len(new) + j]
            ELSE 0]

\* A match is of text that stood in the input key as it stands now
Untouched(p) ==
    /\ \A i \in 1..Len(p) : p[i] # 0
    /\ \A i \in 1..(Len(p) - 1) : p[i + 1] = p[i] + 1

\* Every occurrence of old, left to right, replaced by new
RECURSIVE TracedReplace(_, _, _)
TracedReplace(t, old, new) ==
    LET at == Find(t.s, old)
    IN  IF at = 0 THEN t
        ELSE LET to   == at + Len(old) - 1
                 hit  == SubSeq(t.p, at, to)
                 rest == TracedReplace([s |-> Drop(t.s, to), p |-> Drop(t.p, to),
                                        clean |-> t.clean /\ Untouched(hit)], old, new)
             IN  [s |-> SubSeq(t.s, 1, at - 1) \o new \o rest.s,
                  p |-> SubSeq(t.p, 1, at - 1) \o Carried(old, new, hit) \o rest.p,
                  clean |-> rest.clean]

TracedPrefixes(t) ==
    LET t1 == TracedReplace(t, PfxDiffusionModel, <<>>)
    IN  IF StartsWith(t1.s, PfxTransformer) THEN TracedReplace(t1, PfxTransformer, <<>>)
        ELSE t1

RECURSIVE TracedRulesFrom(_, _)
TracedRulesFrom(t, i) ==
    IF Len(t.s) < 0 \/ i > 7 THEN t
    ELSE TracedRulesFrom(
             TracedReplace(t, <<ExtToOut, ExtFfIn, ExtFfOut, ExtAudioFfIn, ExtAudioFfOut,
                                ExtLinear1, ExtLinear2>>[i],
                              <<HostToOut, HostFfIn, HostFfOut, HostAudioFfIn, HostAudioFfOut,
                                HostLinear1, HostLinear2>>[i]), i + 1)

TracedKey == TracedRulesFrom(TracedPrefixes(Traced(KeyText(sk_pieces))), 1)

\* C23: whatever the key, the replay gives the key sanitize_key returned, and
\* every rule after the first matched only text that stood in the input key as
\* it was matched: none that an earlier replacement wrote, none that an earlier
\* deletion brought together
C23_NoRuleRematches ==
    sk_out.called => (TracedKey.s = sk_out.key /\ TracedKey.clean)

\* The replay is of sanitize_key
C23_ReplayAgrees == sk_out.called => TracedKey.s = sk_out.key


\* ------------------------------------------------------------------------
\* C24: the heavyweight objects held at a point of the call
\* ------------------------------------------------------------------------
Heavyweight ==
    {"text_encoder", "transformer", "vae_encoder", "upsampler", "vae_decoder",
     "audio_decoder"}

\* The objects loaded at or before event i and not deleted since
HeldAt(i) ==
    {o \in Heavyweight :
        \E l \in 1..i :
            /\ events[l].kind = "load" /\ events[l].obj = o
            /\ \A k \in (l + 1)..i : ~(events[k].kind = "del" /\ events[k].obj = o)}

IoOf(op) == {i \in 1..Len(io) : io[i].op = op}

\* A line of the original standard output is a JSON response
IsResponse(line) == DOMAIN line = {"status"} \/ "success" \in DOMAIN line

\* C25: file descriptor 1 refers to the original standard output whenever the
\* server reads a request line or writes a response, and refers to stderr only
\* for what a generate request prints while it runs; it is restored whether
\* the call returns, raises or is interrupted; and the original standard
\* output carries the JSON responses and nothing else.
C25_StdoutOnlyResponses ==
    /\ fd1 = "stdout"
    /\ \A i \in IoOf("read") \cup IoOf("response") : io[i].fd1 = "stdout"
    /\ \A i \in IoOf("library") :
           /\ io[i].fd1 = "stderr"
           /\ i > 1 /\ io[i - 1].op = "read"
    /\ \A i \in 1..Len(io) : io[i].fd1 = "stderr" => io[i].op = "library"
    /\ Cardinality(IoOf("library"))
           = Cardinality({i \in 1..Len(handled) :
                              handled[i].call \in {"returned", "raised", "interrupted"}})
    /\ Len(stdout) = Cardinality(IoOf("response"))
    /\ \A k \in 1..Len(stdout) : IsResponse(stdout[k])

\* A generate request whose call raised, answered, then a ping, answered
C25_Witness ==
    /\ Len(handled) = 2
    /\ IsGenerate(handled[1].line) /\ handled[1].call = "raised"
    /\ handled[2].did = "answered" /\ handled[2].call = "none"
    /\ Len(stdout) = 2 /\ stdout[1].success = FALSE /\ stdout[2] = [status |-> "pong"]
    /\ Cardinality(IoOf("library")) = 1


\* C26: no request line ends the server: whatever lines were read, the loop
\* has stopped only when the input was at its end or a keyboard interrupt came
\* while a generate request ran, and every line read before was skipped, logged
\* as invalid JSON, ignored or answered.
C26_NoLineTerminates ==
    /\ ~serving =>
           \/ stdin = <<>> /\ io # <<>> /\ io[Len(io)].op = "read"
                /\ Cardinality(IoOf("read")) = Len(handled) + 1
           \/ handled # <<>> /\ handled[Len(handled)].did = "interrupted"
    /\ \A i \in 1..Len(handled) :
           handled[i].did \in {"skipped", "logged invalid JSON", "ignored", "answered",
                               "interrupted"}


\* The JSON objects among what main has printed
JsonPrinted == {line \in Printed : DOMAIN line \cap {"video_path", "success"} # {}}

\* C27: when main of av_generator_lora has ended, the original standard output
\* holds exactly one line, the JSON result object of a successful run or the
\* JSON error object of a failed one, and everything else main printed went to
\* standard error.
C27_JsonOnOriginalStdout ==
    exit_code # NotExited =>
        /\ Cardinality(JsonPrinted) = 1
        /\ \A line \in Printed : line.stream = "stdout" <=> line \in JsonPrinted


\* The result objects among what a wrapper has printed
ResultsPrinted == {i \in 1..Len(wr_printed) : "seed" \in DOMAIN wr_printed[i]}

\* C28: the result object a wrapper prints describes the generation call it
\* made: the call was given a seed and the reported seed is that seed, and
\* has_audio is false exactly when the call was told to generate no audio.
C28_ResultDescribesRun ==
    \A i \in ResultsPrinted :
        /\ wr_call # NotCalled
        /\ "seed" \in wr_call.has /\ wr_printed[i].seed = wr_call.seed
        /\ wr_printed[i].has_audio = FALSE <=> "no_audio" \in wr_call.has

====
